---- MODULE Spec2Model ----
(***************************************************************************)
(* Model of the PiyP reference-manager backend.                            *)
(*                                                                         *)
(*   Spec      the PDF metadata extraction cascade                         *)
(*             (services/pdf_metadata_extractor.py)                        *)
(*   SpecWS    the WebSocket connection registry and the per-user          *)
(*             handler (main.py, ConnectionManager / websocket_endpoint)   *)
(*   SpecTask  the task progress WebSocket (main.py,                       *)
(*             task_websocket_endpoint)                                    *)
(*                                                                         *)
(* Python strings are TLA+ strings; a character is a string of length 1.   *)
(* None is modelled by 0 for the year and by "" for an optional string.    *)
(* Confidences are percentages (0.95 is 95).                               *)
(***************************************************************************)
EXTENDS Integers, Sequences, FiniteSets, TLC

(***************************************************************************)
(* String helpers (the str methods and regex classes the code uses).       *)
(***************************************************************************)
Char(s, i) == SubSeq(s, i, i)

UpperStr == "ABCDEFGHIJKLMNOPQRSTUVWXYZ"
LowerStr == "abcdefghijklmnopqrstuvwxyz"
DigitStr == "0123456789"

Chars(s) == {Char(s, i) : i \in 1..Len(s)}

\* the items of a sequence
Range(seq) == {seq[i] : i \in 1..Len(seq)}

UpperChars == Chars(UpperStr)
LowerChars == Chars(LowerStr)
DigitChars == Chars(DigitStr)

isupper(c) == c \in UpperChars
islower(c) == c \in LowerChars
isdigit(c) == c \in DigitChars
\* \s of the re module, restricted to the whitespace the inputs contain
isspace(c) == c \in {" ", "\n", "\t"}
\* \w of the re module
isword(c) == isupper(c) \/ islower(c) \/ isdigit(c) \/ c = "_"

IndexIn(c, s) == CHOOSE i \in 1..Len(s) : Char(s, i) = c

lower_char(c) == IF isupper(c) THEN Char(LowerStr, IndexIn(c, UpperStr)) ELSE c
upper_char(c) == IF islower(c) THEN Char(UpperStr, IndexIn(c, LowerStr)) ELSE c

RECURSIVE lower(_)
lower(s) == IF s = "" THEN "" ELSE lower_char(Head(s)) \o lower(Tail(s))

DigitValue(c) == IndexIn(c, DigitStr) - 1

RECURSIVE int(_)
int(s) == IF s = "" THEN 0 ELSE 10 * int(SubSeq(s, 1, Len(s) - 1)) + DigitValue(Char(s, Len(s)))

\* s[i:] and s[:n] of Python, 1-based start
From(s, i) == SubSeq(s, i, Len(s))
Prefix(s, n) == SubSeq(s, 1, IF n < Len(s) THEN n ELSE Len(s))

StartsWithAt(s, i, p) == i + Len(p) - 1 <= Len(s) /\ SubSeq(s, i, i + Len(p) - 1) = p

RECURSIVE lstrip(_)
lstrip(s) == IF s # "" /\ isspace(Head(s)) THEN lstrip(Tail(s)) ELSE s

RECURSIVE rstrip(_)
rstrip(s) == IF s # "" /\ isspace(Char(s, Len(s))) THEN rstrip(SubSeq(s, 1, Len(s) - 1)) ELSE s

strip(s) == lstrip(rstrip(s))

\* str.rstrip(chars)
RECURSIVE rstrip_chars(_, _)
rstrip_chars(s, cs) ==
    IF s # "" /\ Char(s, Len(s)) \in Chars(cs)
    THEN rstrip_chars(SubSeq(s, 1, Len(s) - 1), cs)
    ELSE s

\* index of the first occurrence of sep in s at or after i, 0 when there is none
RECURSIVE find(_, _, _)
find(s, sep, i) ==
    IF i + Len(sep) - 1 > Len(s) THEN 0
    ELSE IF StartsWithAt(s, i, sep) THEN i
    ELSE find(s, sep, i + 1)

\* str.split(sep) for a non-empty separator
RECURSIVE split(_, _)
split(s, sep) ==
    LET k == find(s, sep, 1)
    IN  IF k = 0 THEN <<s>>
        ELSE <<SubSeq(s, 1, k - 1)>> \o split(From(s, k + Len(sep)), sep)

\* str.split() on runs of whitespace
RECURSIVE split_ws(_)
split_ws(s) ==
    LET t == lstrip(s)
        k == CHOOSE j \in 1..(Len(t) + 1) :
                 /\ j = Len(t) + 1 \/ isspace(Char(t, j))
                 /\ \A i \in 1..(j - 1) : ~isspace(Char(t, i))
    IN  IF t = "" THEN <<>>
        ELSE <<SubSeq(t, 1, k - 1)>> \o split_ws(From(t, k))

\* sep.join(parts)
RECURSIVE join(_, _)
join(sep, parts) ==
    IF parts = <<>> THEN ""
    ELSE IF Len(parts) = 1 THEN parts[1]
    ELSE parts[1] \o sep \o join(sep, Tail(parts))

\* str.capitalize()
capitalize(w) == IF w = "" THEN "" ELSE upper_char(Head(w)) \o lower(Tail(w))

\* the character classes of the regular expressions in the code
InClass(kind, c) ==
    CASE kind = "digit"    -> isdigit(c)                    \* \d
      [] kind = "space"    -> isspace(c)                    \* \s
      [] kind = "lower"    -> islower(c)                    \* [a-z]
      [] kind = "doi_tail" -> ~isspace(c) /\ c # "]"        \* [^\s\]]
      [] kind = "nonspace" -> ~isspace(c)                   \* [^\s]

\* end of the longest run of characters of the class starting at i (i - 1 when empty)
RECURSIVE RunEnd(_, _, _)
RunEnd(s, i, kind) ==
    IF i <= Len(s) /\ InClass(kind, Char(s, i)) THEN RunEnd(s, i + 1, kind) ELSE i - 1

(***************************************************************************)
(* Python dictionaries are functions on their keys.                        *)
(***************************************************************************)
\* dict.update: the keys of d win
update(metadata, d) == d @@ metadata

\* dict.get(key) with the default None, and Python truthiness of the result
get(d, key, none) == IF key \in DOMAIN d THEN d[key] ELSE none

EmptyDict == [k \in {} |-> 0]

\* list[:n]
FirstN(list, n) == SubSeq(list, 1, IF n < Len(list) THEN n ELSE Len(list))

\* datetime.now().year
CurrentYear == 2026

(***************************************************************************)
(* PDFMetadataExtractor: the pure helpers.                                 *)
(***************************************************************************)
NoMatch == <<0, 0>>

\* 10\.\d{4,}/[^\s\]]+ matched at position i: the last index of the match, 0 when none
DoiCoreEnd(text, i) ==
    IF ~StartsWithAt(text, i, "10.") THEN 0
    ELSE LET d == RunEnd(text, i + 3, "digit")
         IN  IF d - (i + 3) + 1 >= 4 /\ d + 1 <= Len(text) /\ Char(text, d + 1) = "/"
             THEN LET e == RunEnd(text, d + 2, "doi_tail")
                  IN  IF e >= d + 2 THEN e ELSE 0
             ELSE 0

\* a literal prefix matched at p under re.IGNORECASE: the index after it, 0 when none
IPrefixEnd(text, p, prefix) ==
    IF p + Len(prefix) - 1 <= Len(text) /\ lower(SubSeq(text, p, p + Len(prefix) - 1)) = prefix
    THEN p + Len(prefix)
    ELSE 0

\* https?://<host>/ matched at p under re.IGNORECASE
UrlPrefixEnd(text, p, host) ==
    LET a == IPrefixEnd(text, p, "https://" \o host \o "/")
        b == IPrefixEnd(text, p, "http://" \o host \o "/")
    IN  IF a # 0 THEN a ELSE b

\* the five entries of doi_patterns, in list order
doi_patterns == <<"doi:", "DOI:", "doi.org", "dx.doi.org", "raw">>

\* one pattern tried at position p: <<start of group 1, end of the match>>
PatternMatch(pattern, text, p) ==
    LET start ==
            CASE pattern \in {"doi:", "DOI:"} ->
                    LET q == IPrefixEnd(text, p, "doi:")
                    IN  IF q = 0 THEN 0 ELSE RunEnd(text, q, "space") + 1
              [] pattern = "doi.org"    -> UrlPrefixEnd(text, p, "doi.org")
              [] pattern = "dx.doi.org" -> UrlPrefixEnd(text, p, "dx.doi.org")
              [] pattern = "raw"        -> p
        e == IF start = 0 THEN 0 ELSE DoiCoreEnd(text, start)
    IN  IF e = 0 THEN NoMatch ELSE <<start, e>>

\* re.finditer: the non-overlapping matches from position p on, left to right
RECURSIVE finditer(_, _, _)
finditer(pattern, text, p) ==
    IF p > Len(text) THEN <<>>
    ELSE LET m == PatternMatch(pattern, text, p)
         IN  IF m # NoMatch THEN <<m>> \o finditer(pattern, text, m[2] + 1)
             ELSE finditer(pattern, text, p + 1)

_is_valid_doi(doi) ==
    /\ StartsWithAt(doi, 1, "10.")
    /\ LET d == RunEnd(doi, 4, "digit")
       IN  /\ d - 4 + 1 >= 4
           /\ d + 1 <= Len(doi) /\ Char(doi, d + 1) = "/"
           /\ d + 2 <= Len(doi)
           /\ LET e == RunEnd(doi, d + 2, "nonspace")   \* $ also matches before a final newline
              IN  e >= d + 2 /\ (e = Len(doi) \/ (e = Len(doi) - 1 /\ Char(doi, Len(doi)) = "\n"))
    /\ Len(doi) > 10

\* the cleaned candidates of one pattern, in match order
Candidates(pattern, text) ==
    LET ms == finditer(pattern, text, 1)
    IN  [i \in 1..Len(ms) |-> rstrip_chars(SubSeq(text, ms[i][1], ms[i][2]), ".,;:)]")]

\* the first element of a sequence of strings that passes the validation, "" when none
RECURSIVE FirstValid(_)
\* an invalid first candidate ends the search of the pattern
FirstValid_first_only(cands) ==
    IF cands # <<>> /\ _is_valid_doi(Head(cands)) THEN Head(cands) ELSE ""

FirstValid(cands) ==
    IF cands = <<>> THEN ""
    ELSE IF _is_valid_doi(Head(cands)) THEN Head(cands)
    ELSE FirstValid(Tail(cands))

RECURSIVE FindFrom(_, _)
FindFrom(k, text) ==
    IF k > Len(doi_patterns) THEN ""
    ELSE LET doi == FirstValid(Candidates(doi_patterns[k], text))
         IN  IF doi # "" THEN doi ELSE FindFrom(k + 1, text)

\* returns "" for None
_find_doi_in_text(text) == IF text = "" THEN "" ELSE FindFrom(1, text)

\* the title heuristic: the first of the first ten lines that looks like a title
LooksLikeTitle(line) ==
    /\ Len(line) > 20 /\ Len(line) < 200
    /\ isupper(Head(line))
    /\ \E i \in 1..Len(line) : islower(Char(line, i))

RECURSIVE FirstTitle(_)
FirstTitle(lines) ==
    IF lines = <<>> THEN ""
    ELSE IF LooksLikeTitle(strip(Head(lines))) THEN strip(Head(lines))
    ELSE FirstTitle(Tail(lines))

\* re.findall(r'\b(19|20)\d{2}\b', text): the captured groups
YearAt(text, p) ==
    /\ p + 3 <= Len(text)
    /\ SubSeq(text, p, p + 1) \in {"19", "20"}
    /\ isdigit(Char(text, p + 2)) /\ isdigit(Char(text, p + 3))
    /\ p = 1 \/ ~isword(Char(text, p - 1))
    /\ p + 3 = Len(text) \/ ~isword(Char(text, p + 4))

RECURSIVE years(_, _)
years(text, p) ==
    IF p > Len(text) THEN <<>>
    ELSE IF YearAt(text, p) THEN <<SubSeq(text, p, p + 1)>> \o years(text, p + 4)
    ELSE years(text, p + 1)

InYearRange(y) == int(y) >= 1990 /\ int(y) <= CurrentYear

year_numbers(text) ==
    LET ys == SelectSeq(years(text, 1), InYearRange)
    IN  [i \in 1..Len(ys) |-> int(ys[i])]

RECURSIVE max(_)
max(list) ==
    IF Len(list) = 1 THEN list[1]
    ELSE LET m == max(Tail(list)) IN IF list[1] >= m THEN list[1] ELSE m

\* (?:\s+[A-Z][a-z]+)* continued after index e
RECURSIVE MoreNames(_, _)
MoreNames(t, e) ==
    LET w == RunEnd(t, e + 1, "space")
        l == RunEnd(t, w + 2, "lower")
    IN  IF w >= e + 1 /\ w + 1 <= Len(t) /\ isupper(Char(t, w + 1)) /\ l >= w + 2
        THEN MoreNames(t, l)
        ELSE e

\* [A-Z][a-z]+ [A-Z][a-z]+(?:\s+[A-Z][a-z]+)* matched at p: the last index, 0 when none
AuthorEnd(t, p) ==
    IF ~(p <= Len(t) /\ isupper(Char(t, p))) THEN 0
    ELSE LET l1 == RunEnd(t, p + 1, "lower")
         IN  IF ~(l1 >= p + 1 /\ l1 + 2 <= Len(t) /\ Char(t, l1 + 1) = " "
                    /\ isupper(Char(t, l1 + 2)))
             THEN 0
             ELSE LET l2 == RunEnd(t, l1 + 3, "lower")
                  IN  IF l2 >= l1 + 3 THEN MoreNames(t, l2) ELSE 0

RECURSIVE author_matches(_, _)
author_matches(t, p) ==
    IF p > Len(t) THEN <<>>
    ELSE LET e == AuthorEnd(t, p)
         IN  IF e # 0 THEN <<SubSeq(t, p, e)>> \o author_matches(t, e + 1)
             ELSE author_matches(t, p + 1)

potential_authors(text) == FirstN(author_matches(Prefix(text, 1000), 1), 5)

_extract_metadata_from_text(text) ==
    IF text = "" THEN EmptyDict
    ELSE LET title   == FirstTitle(FirstN(split(text, "\n"), 10))
             yn      == year_numbers(text)
             authors == potential_authors(text)
         IN  (IF title # "" THEN "title" :> title ELSE EmptyDict)
                @@ (IF yn # <<>> THEN "year" :> max(yn) ELSE EmptyDict)
                @@ (IF authors # <<>> THEN "authors" :> authors ELSE EmptyDict)

\* every element of the list split by sep, stripped, the empty pieces dropped
NonEmpty(a) == a # ""

RECURSIVE split_all(_, _)
split_all(authors, sep) ==
    IF authors = <<>> THEN <<>>
    ELSE LET pieces == split(Head(authors), sep)
             clean  == [i \in 1..Len(pieces) |-> strip(pieces[i])]
         IN  SelectSeq(clean, NonEmpty) \o split_all(Tail(authors), sep)

ReasonableName(author) == Len(split_ws(strip(author))) >= 2 /\ Len(strip(author)) < 50

_parse_authors_string(authors_str) ==
    IF authors_str = "" THEN <<>>
    ELSE LET a1 == split_all(<<authors_str>>, ";")
             a2 == split_all(a1, ",")
             a3 == split_all(a2, "&")
             a4 == split_all(a3, " and ")
             a5 == split_all(a4, "\n")
             st == [i \in 1..Len(a5) |-> strip(a5[i])]
         IN  FirstN(SelectSeq(st, ReasonableName), 10)

\* re.search(r'(\d{4})'): the start of the first four consecutive digits, 0 when none
RECURSIVE FourDigits(_, _)
FourDigits(s, p) ==
    IF p + 3 > Len(s) THEN 0
    ELSE IF \A i \in p..(p + 3) : isdigit(Char(s, i)) THEN p
    ELSE FourDigits(s, p + 1)

\* returns 0 for None
_extract_year_from_date(date_str) ==
    LET p == FourDigits(date_str, 1)
        year == int(SubSeq(date_str, p, p + 3))
    IN  IF p # 0 /\ 1900 <= year /\ year <= CurrentYear THEN year ELSE 0

\* str.replace(old, new) for a single character old
RECURSIVE replace(_, _, _)
replace(s, old, new) ==
    IF s = "" THEN ""
    ELSE (IF Head(s) = old THEN new ELSE Head(s)) \o replace(Tail(s), old, new)

\* the index of the last occurrence of the character c in s, 0 when there is none
RECURSIVE rfind(_, _, _)
rfind(s, c, i) ==
    IF i = 0 THEN 0 ELSE IF Char(s, i) = c THEN i ELSE rfind(s, c, i - 1)

prefixes_to_remove == {"paper", "article", "document", "file"}

_clean_filename_for_title(filename) ==
    LET dot    == rfind(filename, ".", Len(filename))
        base   == IF dot # 0 THEN SubSeq(filename, 1, dot - 1) ELSE filename
        spaced == replace(replace(base, "_", " "), "-", " ")
        words  == split_ws(spaced)
        kept   == IF words # <<>> /\ lower(words[1]) \in prefixes_to_remove
                  THEN Tail(words) ELSE words
        title  == join(" ", [i \in 1..Len(kept) |-> capitalize(kept[i])])
    IN  IF title # "" THEN title ELSE filename

(***************************************************************************)
(* The inputs of one extraction.  PyPDF2 and Crossref are outside the      *)
(* repository: a file is what PdfReader makes of it, a reply is what the   *)
(* HTTP request to Crossref produces.                                      *)
(***************************************************************************)
MaxLines == 2

LineSamples ==
    { "doi: 10.1234/abc.",
      "10.1234/ab",
      "Deep Learning For Graph Matching",
      "a note on graphs from 2021" }

RECURSIVE TextsOfLength(_)
TextsOfLength(n) ==
    IF n = 1 THEN LineSamples
    ELSE {l \o "\n" \o t : l \in LineSamples, t \in TextsOfLength(n - 1)}

Texts == UNION {TextsOfLength(n) : n \in 1..MaxLines}

\* first pages made of the ways a DOI is written: prefixed, as a URL, raw, too short,
\* cut by a bracket, absent
MaxParts == 2

DoiParts ==
    { "doi: 10.1234/abc.",
      "10.1234/ab",
      "see 10.5678/raw12,",
      "(https://doi.org/10.4321/url1)",
      "http://dx.doi.org/10.9999/dx12;",
      "DOI:10.1234/a]",
      "no identifier" }

RECURSIVE DoiTextsOfLength(_)
DoiTextsOfLength(n) ==
    IF n = 1 THEN DoiParts
    ELSE {l \o "\n" \o t : l \in DoiParts, t \in DoiTextsOfLength(n - 1)}

DoiTexts == UNION {DoiTextsOfLength(n) : n \in 1..MaxParts} \cup {""}

\* the document information dictionaries (reader.metadata); EmptyDict is None
Infos ==
    { EmptyDict,
      "/Title" :> "  A Known Title " @@ "/Author" :> "Jane Doe; John Smith"
          @@ "/CreationDate" :> "D:20190304120000" @@ "/Keywords" :> "k1, k2",
      "/Title" :> "   " @@ "/Author" :> "Madonna; Ann Lee" @@ "/Subject" :> " graphs " }

\* file_data as PdfReader sees it
Files ==
    [corrupt : {TRUE}, info : {EmptyDict}, pages : {<<>>}, extract_fails : {FALSE}]
      \cup [corrupt : {FALSE}, info : Infos, pages : {<<>>}, extract_fails : {FALSE}]
      \cup [corrupt : {FALSE}, info : Infos, pages : {<<t>> : t \in Texts \cup {""}},
            extract_fails : {FALSE}]
      \cup [corrupt : {FALSE}, info : Infos, pages : {<<"doi: 10.1234/abc.">>},
            extract_fails : {TRUE}]

Filenames == {"paper_my-great_study.pdf", "file.pdf"}

\* the message of a 200 reply
Works ==
    { "title" :> <<"The Crossref Title">>
          @@ "author" :> <<[given |-> "Jane", family |-> "Doe"], [given |-> "", family |-> "Smith"]>>
          @@ "published-print" :> <<<<2020, 5>>>> @@ "container-title" :> <<"Journal of Graphs">>
          @@ "is-referenced-by-count" :> 7 @@ "publisher" :> "ACM",
      "title" :> <<>> @@ "author" :> <<[given |-> "Solo", family |-> ""]>>
          @@ "published-print" :> <<<<>>>> @@ "published-online" :> <<<<2018>>>>
          @@ "abstract" :> "An abstract." @@ "subject" :> <<"Graphs", "Matching">> }

\* what the GET request produces: a reply with a status, a timeout or another exception
Replies ==
    [kind : {"response"}, status : {200}, work : Works]
      \cup [kind : {"response"}, status : {404}, work : {EmptyDict}]
      \cup [kind : {"timeout", "exception"}, status : {0}, work : {EmptyDict}]

\* the statement of the try block in which an unexpected exception is raised
Faults == {"none", "find_doi", "text_parsing"}

(***************************************************************************)
(* State                                                                   *)
(***************************************************************************)
VARIABLES
    file_data, filename, reply, fault,      \* the inputs of the extraction
    pc,                                     \* position in extract_pdf_metadata
    metadata, first_page_text, doi,         \* its locals
    executed,                               \* the stages that ran, in order
    crossref_calls                          \* number of requests sent to Crossref

extractVars == <<file_data, filename, reply, fault, pc, metadata, first_page_text, doi,
                 executed, crossref_calls>>

(***************************************************************************)
(* State of the WebSocket layer (main.py)                                  *)
(***************************************************************************)
NumSockets == 2

\* one WebSocket object per connection request on /ws/{user_id}
Sockets == 1..NumSockets

Users == {"u1", "u2"}

\* a caller of manager.broadcast_to_user, the entry the manager offers to the rest of the
\* application
Broadcaster == 0

\* the coroutines that can be inside send_personal_message
Senders == Sockets \cup {Broadcaster}

VARIABLES
    active_connections,     \* ConnectionManager.active_connections: user id -> set of sockets
    hpc,                    \* websocket_endpoint of each socket: the await it is suspended at
    huser,                  \* its user_id path parameter
    open,                   \* the connection of the socket is still up
    it,                     \* send_personal_message of each sender: the set iteration in progress
    raised,                 \* the exception send_personal_message raised in the last step, or "none"
    begun,                  \* the event of the message whose sending began in the last step, or ""
    returned,               \* the iteration of the send that returned in the last step
    spc, skeys, suser       \* shutdown_event: position, users left to do, user being done

wsVars == <<active_connections, hpc, huser, open, it, raised, begun, returned,
            spc, skeys, suser>>

(***************************************************************************)
(* State of the task progress endpoint (main.py)                           *)
(***************************************************************************)
NumTaskSockets == 2

\* one WebSocket object per connection request on /ws/tasks/{task_id}
TaskSockets == 1..NumTaskSockets

TaskIds == {"task-1", "task-2"}

\* the polls a handler makes before the model stops following it
MaxPolls == 3

VARIABLES
    tpc,                    \* task_websocket_endpoint of each socket: where it is suspended
    task_id,                \* its task_id path parameter
    polled,                 \* the status of each task_status the loop has polled, in order
    sent,                   \* the type of each message send_json has sent, in order
    ended                   \* how the handler ended

taskVars == <<tpc, task_id, polled, sent, ended>>

(***************************************************************************)
(* State of the HTTP API (api/tasks.py, api/papers.py) and its datastore   *)
(***************************************************************************)
\* the requests a run makes
MaxRequests == 2

VARIABLES
    requests,               \* number of requests served so far
    request,                \* the last request served
    response,               \* the response to the last request
    cancelled,              \* the tasks for which cancel_task has answered success
    research_papers,        \* table research_papers: paper_id -> row
    paper_reading_status,   \* table paper_reading_status: <<paper_id, user_id>> -> row
    tags,                   \* table tags: the <<user_id, tag_name>> rows
    paper_tags,             \* table paper_tags: the <<paper_id, tag>> links
    collection_papers       \* table collection_papers: the <<collection_id, paper_id>> links

\* the tables of the datastore the papers API writes
dbVars == <<research_papers, paper_reading_status, tags, paper_tags, collection_papers>>

apiVars == <<requests, request, response, cancelled, dbVars>>

VARIABLES
    auth_users,             \* the accounts Supabase Auth knows
    user_profiles           \* table core.user_profiles: user id -> row

coreVars == <<auth_users, user_profiles>>

VARIABLES
    refman_papers,          \* table refman.papers: id -> row
    refman_collections,     \* table refman.collections: id -> row
    paper_collections       \* table refman.paper_collections: the links

refmanVars == <<refman_papers, refman_collections, paper_collections>>

\* the state behind the HTTP routers
httpVars == <<apiVars, coreVars, refmanVars>>

vars == <<extractVars, wsVars, taskVars, httpVars>>

(***************************************************************************)
(* PDFMetadataExtractor: the stages                                        *)
(***************************************************************************)
initial_metadata ==
    "title" :> "" @@ "authors" :> <<>> @@ "year" :> 0 @@ "venue" :> "" @@ "doi" :> ""
      @@ "abstract" :> "" @@ "subject" :> "" @@ "keywords" :> "" @@ "citation_count" :> 0
      @@ "extraction_method" :> "none" @@ "extraction_confidence" :> 0

\* a key of the document information that is present and not empty
Has(info, key) == key \in DOMAIN info /\ info[key] # ""

_extract_basic_pdf_properties(f) ==
    IF f.corrupt \/ f.info = EmptyDict THEN EmptyDict
    ELSE LET info == f.info
             year == _extract_year_from_date(info["/CreationDate"])
         IN  (IF Has(info, "/Title") THEN "title" :> strip(info["/Title"]) ELSE EmptyDict)
               @@ (IF Has(info, "/Author")
                   THEN "authors" :> _parse_authors_string(strip(info["/Author"]))
                   ELSE EmptyDict)
               @@ (IF Has(info, "/Subject") THEN "subject" :> strip(info["/Subject"])
                   ELSE EmptyDict)
               @@ (IF Has(info, "/Keywords") THEN "keywords" :> strip(info["/Keywords"])
                   ELSE EmptyDict)
               @@ (IF Has(info, "/CreationDate") /\ year # 0 THEN "year" :> year
                   ELSE EmptyDict)

_extract_first_page_text(f) ==
    IF f.corrupt \/ f.extract_fails \/ Len(f.pages) = 0 THEN "" ELSE f.pages[1]

\* the names built from work['author']
RECURSIVE author_names(_)
author_names(list) ==
    IF list = <<>> THEN <<>>
    ELSE LET a == Head(list)
         IN  (IF a.given # "" /\ a.family # "" THEN <<a.given \o " " \o a.family>>
              ELSE IF a.family # "" THEN <<a.family>>
              ELSE <<>>) \o author_names(Tail(list))

\* date_parts[0][0] when there is one, else 0
FirstDatePart(work, key) ==
    IF work[key] # <<>> /\ work[key][1] # <<>> THEN work[key][1][1] ELSE 0

\* the metadata built from a 200 reply
CrossrefMetadata(work, d) ==
    LET year == IF "published-print" \in DOMAIN work THEN FirstDatePart(work, "published-print")
                ELSE IF "published-online" \in DOMAIN work
                     THEN FirstDatePart(work, "published-online")
                ELSE 0
    IN  (IF "title" \in DOMAIN work /\ work["title"] # <<>>
         THEN "title" :> work["title"][1] ELSE EmptyDict)
          @@ "authors" :> (IF "author" \in DOMAIN work THEN author_names(work["author"])
                           ELSE <<>>)
          @@ (IF year # 0 THEN "year" :> year ELSE EmptyDict)
          @@ (IF "container-title" \in DOMAIN work /\ work["container-title"] # <<>>
              THEN "venue" :> work["container-title"][1] ELSE EmptyDict)
          @@ "doi" :> d
          @@ (IF "abstract" \in DOMAIN work THEN "abstract" :> work["abstract"] ELSE EmptyDict)
          @@ (IF "is-referenced-by-count" \in DOMAIN work
              THEN "citation_count" :> work["is-referenced-by-count"] ELSE EmptyDict)
          @@ (IF "publisher" \in DOMAIN work THEN "publisher" :> work["publisher"]
              ELSE EmptyDict)
          @@ (IF "subject" \in DOMAIN work THEN "keywords" :> join(", ", work["subject"])
              ELSE EmptyDict)

\* EmptyDict is None: a non-200 status, a timeout and any other exception are logged
_query_crossref_api(d, r) ==
    IF r.kind = "response" /\ r.status = 200 THEN CrossrefMetadata(r.work, d) ELSE EmptyDict

\* text parsing is entered whatever the text
AfterDoi_always_parses(text) == "phase4"

\* the stage that follows the DOI search when Crossref gave nothing (line 83)
AfterDoi(text) == IF text # "" THEN "phase4" ELSE "final"

\* a lookup that gave metadata does not end the extraction
AfterCrossref_falls_through(crossref_metadata, text) == AfterDoi(text)

\* a lookup that gave nothing is treated as a failure of the extraction
AfterCrossref_fails(crossref_metadata, text) ==
    IF crossref_metadata # EmptyDict THEN "done" ELSE "except"

\* the stage that follows the Crossref lookup (lines 75-80)
AfterCrossref(crossref_metadata, text) ==
    IF crossref_metadata # EmptyDict THEN "done" ELSE AfterDoi(text)

\* lines 77-79
CrossrefMerge(md, crossref_metadata) ==
    update(update(md, crossref_metadata),
           "extraction_method" :> "crossref" @@ "extraction_confidence" :> 95)

\* text parsing reports the DOI that was found
TextMerge_reports_doi(md, text) ==
    update(update(md, _extract_metadata_from_text(text)),
           "extraction_method" :> "text_parsing" @@ "extraction_confidence" :> 60
             @@ "doi" :> doi)

\* lines 84-87
TextMerge(md, text) ==
    update(update(md, _extract_metadata_from_text(text)),
           "extraction_method" :> "text_parsing" @@ "extraction_confidence" :> 60)

\* the properties branch does not set the method
FinalDecision_keeps_none(md, name) ==
    IF md["title"] # "" \/ md["authors"] # <<>>
    THEN md
    ELSE update(md, "title" :> _clean_filename_for_title(name)
                      @@ "extraction_method" :> "filename"
                      @@ "extraction_confidence" :> 30)

\* the authors are not looked at
FinalDecision_title_only(md, name) ==
    IF md["title"] # ""
    THEN IF md["extraction_method"] = "none"
         THEN update(md, "extraction_method" :> "pdf_properties"
                           @@ "extraction_confidence" :> 70)
         ELSE md
    ELSE update(md, "title" :> _clean_filename_for_title(name)
                      @@ "extraction_method" :> "filename"
                      @@ "extraction_confidence" :> 30)

\* lines 89-98
FinalDecision(md, name) ==
    IF md["title"] # "" \/ md["authors"] # <<>>
    THEN IF md["extraction_method"] = "none"
         THEN update(md, "extraction_method" :> "pdf_properties"
                           @@ "extraction_confidence" :> 70)
         ELSE md
    ELSE update(md, "title" :> _clean_filename_for_title(name)
                      @@ "extraction_method" :> "filename"
                      @@ "extraction_confidence" :> 30)

\* the error record is built from the initial metadata
ErrorResult_resets(md, name, e) ==
    update(initial_metadata, "title" :> _clean_filename_for_title(name)
                               @@ "extraction_method" :> "error"
                               @@ "extraction_confidence" :> 10
                               @@ "error" :> e)

\* lines 104-109; e is str(e)
ErrorResult(md, name, e) ==
    update(md, "title" :> _clean_filename_for_title(name)
                 @@ "extraction_method" :> "error"
                 @@ "extraction_confidence" :> 10
                 @@ "error" :> e)

\* Phase 1 (lines 62-64)
Phase1 ==
    /\ pc = "phase1"
    /\ metadata' = update(metadata, _extract_basic_pdf_properties(file_data))
    /\ executed' = Append(executed, "pdf_properties")
    /\ pc' = "phase2"
    /\ UNCHANGED <<file_data, filename, reply, fault, first_page_text, doi, crossref_calls>>
    /\ UNCHANGED <<wsVars, taskVars, httpVars>>

\* Phase 2 (lines 66-70)
Phase2 ==
    /\ pc = "phase2"
    /\ first_page_text' = _extract_first_page_text(file_data)
    /\ IF fault = "find_doi"
       THEN /\ pc' = "except"
            /\ UNCHANGED doi
       ELSE /\ doi' = _find_doi_in_text(first_page_text')
            /\ pc' = IF doi' # "" THEN "phase3" ELSE AfterDoi(first_page_text')
    /\ executed' = executed \o <<"first_page_text", "find_doi">>
    /\ UNCHANGED <<file_data, filename, reply, fault, metadata, crossref_calls>>
    /\ UNCHANGED <<wsVars, taskVars, httpVars>>

\* Phase 3 (lines 72-80)
Phase3 ==
    /\ pc = "phase3"
    /\ crossref_calls' = crossref_calls + 1
    /\ executed' = Append(executed, "crossref")
    /\ LET crossref_metadata == _query_crossref_api(doi, reply)
       IN  /\ metadata' = IF crossref_metadata # EmptyDict
                          THEN CrossrefMerge(metadata, crossref_metadata)
                          ELSE metadata
           /\ pc' = AfterCrossref(crossref_metadata, first_page_text)
    /\ UNCHANGED <<file_data, filename, reply, fault, first_page_text, doi>>
    /\ UNCHANGED <<wsVars, taskVars, httpVars>>

\* Phase 4 (lines 82-87)
Phase4 ==
    /\ pc = "phase4"
    /\ executed' = Append(executed, "text_parsing")
    /\ IF fault = "text_parsing"
       THEN /\ pc' = "except"
            /\ UNCHANGED metadata
       ELSE /\ metadata' = TextMerge(metadata, first_page_text)
            /\ pc' = "final"
    /\ UNCHANGED <<file_data, filename, reply, fault, first_page_text, doi, crossref_calls>>
    /\ UNCHANGED <<wsVars, taskVars, httpVars>>

\* lines 89-100
Final ==
    /\ pc = "final"
    /\ metadata' = FinalDecision(metadata, filename)
    /\ executed' = IF metadata'["extraction_method"] = "filename"
                   THEN Append(executed, "filename") ELSE executed
    /\ pc' = "done"
    /\ UNCHANGED <<file_data, filename, reply, fault, first_page_text, doi, crossref_calls>>
    /\ UNCHANGED <<wsVars, taskVars, httpVars>>

\* the except clause (lines 102-110)
Except ==
    /\ pc = "except"
    /\ metadata' = ErrorResult(metadata, filename, fault)
    /\ executed' = Append(executed, "error")
    /\ pc' = "done"
    /\ UNCHANGED <<file_data, filename, reply, fault, first_page_text, doi, crossref_calls>>
    /\ UNCHANGED <<wsVars, taskVars, httpVars>>

InitExtract ==
    /\ file_data \in Files
    /\ filename \in Filenames
    /\ reply \in Replies
    /\ fault \in Faults
    /\ pc = "phase1"
    /\ metadata = initial_metadata
    /\ first_page_text = ""
    /\ doi = ""
    /\ executed = <<>>
    /\ crossref_calls = 0

NextExtract == Phase1 \/ Phase2 \/ Phase3 \/ Phase4 \/ Final \/ Except

(***************************************************************************)
(* ConnectionManager (main.py lines 63-120)                                *)
(***************************************************************************)
\* a dictionary entry set or deleted
SetItem(ac, u, conns) == [k \in DOMAIN ac \cup {u} |-> IF k = u THEN conns ELSE ac[k]]
DelItem(ac, u) == [k \in DOMAIN ac \ {u} |-> ac[k]]

\* lines 73-76, after websocket.accept() returned
connect(ac, websocket, user_id) ==
    SetItem(ac, user_id, (IF user_id \in DOMAIN ac THEN ac[user_id] ELSE {}) \cup {websocket})

\* lines 81-86
disconnect(ac, websocket, user_id) ==
    IF user_id \in DOMAIN ac
    THEN IF ac[user_id] \ {websocket} = {}
         THEN DelItem(ac, user_id)
         ELSE SetItem(ac, user_id, ac[user_id] \ {websocket})
    ELSE ac

\* the whole set of the user is dropped when a send failed
prune_clears(ac, user_id, disconnected) ==
    IF disconnected = {} THEN ac ELSE SetItem(ac, user_id, {})

\* lines 106-107; the caller has checked that the lookup of user_id succeeds
prune(ac, user_id, disconnected) ==
    IF disconnected = {} THEN ac ELSE SetItem(ac, user_id, ac[user_id] \ disconnected)

\* no iteration in progress
NoSend == [user |-> "", used |-> 0, cur |-> 0, disconnected |-> {}]

\* iter() of the user's set at line 98: the size of the set, nothing visited yet
NewIteration(ac, user_id) ==
    [user |-> user_id, used |-> Cardinality(ac[user_id]), cur |-> 0, disconnected |-> {}]

\* the least element of a non-empty set of sockets
Min(S) == CHOOSE x \in S : \A y \in S : x <= y

\* next() of a set iterator.  A set whose size differs from the size at iter() raises
\* RuntimeError.  The members are visited in the order of their slots in the hash table,
\* which is the order of the socket numbers here: a member added behind the position of
\* the iterator is visited, one added before it is missed.  An iterator over a set that
\* was deleted from the dictionary has used = -1: it sees that emptied set, not the new one.
IterNext(ac, i) ==
    LET conns == IF i.user \in DOMAIN ac THEN ac[i.user] ELSE {}
        left  == {x \in conns : x > i.cur}
    IN  IF Cardinality(conns) # i.used THEN [kind |-> "RuntimeError", c |-> 0]
        ELSE IF left = {} THEN [kind |-> "stop", c |-> 0]
        ELSE [kind |-> "yield", c |-> Min(left)]

\* the iterations over the set of a user whose entry is deleted lose their set
Orphaned(its, ac, ac2) ==
    [q \in Senders |->
        IF its[q] # NoSend /\ its[q].user \in DOMAIN ac /\ its[q].user \notin DOMAIN ac2
        THEN [its[q] EXCEPT !.used = -1]
        ELSE its[q]]

\* websocket_endpoint leaves through its finally clause (line 220)
HandlerExit(p, ac) ==
    LET ac2 == disconnect(ac, p, huser[p])
    IN  /\ active_connections' = ac2
        /\ it' = [Orphaned(it, ac, ac2) EXCEPT ![p] = NoSend]
        /\ hpc' = [hpc EXCEPT ![p] = "done"]
        /\ huser' = [huser EXCEPT ![p] = ""]
        /\ open' = [open EXCEPT ![p] = FALSE]

\* send_personal_message returns to its caller
SendReturns(p, ac, hu, i) ==
    /\ active_connections' = ac
    /\ it' = [it EXCEPT ![p] = NoSend]
    /\ raised' = "none"
    /\ returned' = i
    /\ hpc' = IF p \in Sockets THEN [hpc EXCEPT ![p] = "receiving"] ELSE hpc
    /\ huser' = hu
    /\ UNCHANGED open

\* send_personal_message raises: the handler catches it (line 211 or 217) and leaves
SendRaises(p, ac, hu, err) ==
    /\ raised' = err
    /\ returned' = NoSend
    /\ IF p \in Sockets
       THEN HandlerExit(p, ac)
       ELSE /\ active_connections' = ac
            /\ it' = [it EXCEPT ![p] = NoSend]
            /\ UNCHANGED <<hpc, huser, open>>

\* the for statement of line 98 asks for the next connection (outcome o of next()) with the
\* iteration state i, and the coroutine runs on to its next await
Advance(p, ac, hu, i, o) ==
    CASE o.kind = "yield" ->
            /\ active_connections' = ac
            /\ it' = [it EXCEPT ![p] = [i EXCEPT !.cur = o.c]]
            /\ hpc' = IF p \in Sockets THEN [hpc EXCEPT ![p] = "sending"] ELSE hpc
            /\ raised' = "none"
            /\ returned' = NoSend
            /\ huser' = hu
            /\ UNCHANGED open
      [] o.kind = "stop" ->
            IF i.disconnected # {} /\ i.user \notin DOMAIN ac
            THEN SendRaises(p, ac, hu, "KeyError")
            ELSE SendReturns(p, prune(ac, i.user, i.disconnected), hu, i)
      [] o.kind = "RuntimeError" ->
            SendRaises(p, ac, hu, "RuntimeError")

\* send_personal_message(message, user_id) called by p with the registry ac (lines 92-98);
\* hu is huser with the user of p
BeginSend(p, ac, hu, user_id, event) ==
    /\ begun' = event
    /\ IF user_id \notin DOMAIN ac
       THEN SendReturns(p, ac, hu, [NoSend EXCEPT !.user = user_id])
       ELSE Advance(p, ac, hu, NewIteration(ac, user_id),
                    IterNext(ac, NewIteration(ac, user_id)))

\* the user ids play the same part: the first request in a run is for "u1"
FirstUser(u) == u = "u1" \/ \E t \in Sockets : hpc[t] # "new"

\* the server runs until shutdown_event has returned or raised
Serving == spc \in {"running", "closing"}

\* what a step of a handler or of a sender leaves alone
Others == UNCHANGED <<spc, skeys, suser, extractVars, taskVars, httpVars>>

(***************************************************************************)
(* websocket_endpoint (main.py lines 167-220)                              *)
(***************************************************************************)
\* accept() returned: the socket is registered and the 'connected' message goes out
Connect(s, u) ==
    /\ spc = "running"
    /\ hpc[s] = "new"
    /\ FirstUser(u)
    /\ BeginSend(s, connect(active_connections, s, u), [huser EXCEPT ![s] = u], u, "connected")
    /\ Others

\* accept() raised: the handler ends before anything is registered
ConnectFails(s) ==
    /\ spc = "running"
    /\ hpc[s] = "new"
    /\ hpc' = [hpc EXCEPT ![s] = "done"]
    /\ open' = [open EXCEPT ![s] = FALSE]
    /\ raised' = "none" /\ begun' = "" /\ returned' = NoSend
    /\ UNCHANGED <<active_connections, huser, it>>
    /\ Others

\* the reply event of a received message (lines 187-209)
ReplyEvent(message_type) ==
    CASE message_type = "ping"      -> "pong"
      [] message_type = "subscribe" -> "subscribed"
      [] OTHER                      -> "error"

MessageTypes == {"ping", "subscribe", "none"}

\* receive_json() returned a message: the reply is sent to the user
Receive(s, message_type) ==
    /\ Serving
    /\ hpc[s] = "receiving" /\ open[s]
    /\ BeginSend(s, active_connections, huser, huser[s], ReplyEvent(message_type))
    /\ Others

\* receive_json() raised (the client is gone, or the frame is not JSON): break, finally
ReceiveRaises(s) ==
    /\ Serving
    /\ hpc[s] = "receiving"
    /\ HandlerExit(s, active_connections)
    /\ raised' = "none" /\ begun' = "" /\ returned' = NoSend
    /\ Others

\* send_json() to the current connection returned or raised, the loop goes on (lines 99-103)
SendStep(p) ==
    /\ Serving
    /\ it[p] # NoSend
    /\ LET i  == it[p]
           i2 == IF open[i.cur] THEN i ELSE [i EXCEPT !.disconnected = @ \cup {i.cur}]
       IN  Advance(p, active_connections, huser, i2, IterNext(active_connections, i2))
    /\ begun' = ""
    /\ Others

\* broadcast_to_user(user_id, event, data) called from a router (lines 109-117)
Broadcast(u) ==
    /\ spc = "running"
    /\ it[Broadcaster] = NoSend
    /\ FirstUser(u)
    /\ BeginSend(Broadcaster, active_connections, huser, u, "event")
    /\ Others

\* the peer closes the connection
ClientClose(s) ==
    /\ Serving
    /\ open[s] /\ hpc[s] \in {"sending", "receiving"}
    /\ open' = [open EXCEPT ![s] = FALSE]
    /\ raised' = "none" /\ begun' = "" /\ returned' = NoSend
    /\ UNCHANGED <<active_connections, hpc, huser, it>>
    /\ Others

(***************************************************************************)
(* shutdown_event (main.py lines 293-307)                                  *)
(***************************************************************************)
\* lines 300-304 for the user u: close() is called for each connection of the user
CloseAll(u) == [s \in Sockets |-> open[s] /\ s \notin active_connections[u]]

\* lines 299-304: the keys are listed and the connections of the first user are closed
ShutdownBegin ==
    /\ spc = "running"
    /\ IF DOMAIN active_connections = {}
       THEN /\ spc' = "finished"
            /\ UNCHANGED <<skeys, suser, open>>
       ELSE \E u \in DOMAIN active_connections :
               /\ spc' = "closing"
               /\ skeys' = DOMAIN active_connections \ {u}
               /\ suser' = u
               /\ open' = CloseAll(u)
    /\ raised' = "none" /\ begun' = "" /\ returned' = NoSend
    /\ UNCHANGED <<active_connections, hpc, huser, it, extractVars, taskVars, httpVars>>

\* lines 305 and 299-304: the last close() has returned, the set of the user is cleared and
\* the connections of the next user are closed; a key that is gone raises KeyError
ShutdownNext ==
    /\ spc = "closing"
    /\ IF suser \notin DOMAIN active_connections
       THEN /\ spc' = "failed"
            /\ UNCHANGED <<active_connections, skeys, suser, open>>
       ELSE /\ active_connections' = SetItem(active_connections, suser, {})
            /\ IF skeys = {}
               THEN /\ spc' = "finished"
                    /\ suser' = ""
                    /\ UNCHANGED <<skeys, open>>
               ELSE \E u \in skeys :
                       /\ skeys' = skeys \ {u}
                       /\ suser' = u
                       /\ IF u \in DOMAIN active_connections
                          THEN spc' = "closing" /\ open' = CloseAll(u)
                          ELSE spc' = "failed" /\ open' = open
    /\ raised' = "none" /\ begun' = "" /\ returned' = NoSend
    /\ UNCHANGED <<hpc, huser, it, extractVars, taskVars, httpVars>>

InitWS ==
    /\ active_connections = EmptyDict
    /\ hpc = [s \in Sockets |-> "new"]
    /\ huser = [s \in Sockets |-> ""]
    /\ open = [s \in Sockets |-> TRUE]
    /\ it = [p \in Senders |-> NoSend]
    /\ raised = "none"
    /\ begun = ""
    /\ returned = NoSend
    /\ spc = "running"
    /\ skeys = {}
    /\ suser = ""

NextWS ==
    \/ \E s \in Sockets, u \in Users : Connect(s, u)
    \/ \E s \in Sockets : ConnectFails(s)
    \/ \E s \in Sockets, t \in MessageTypes : Receive(s, t)
    \/ \E s \in Sockets : ReceiveRaises(s)
    \/ \E p \in Senders : SendStep(p)
    \/ \E u \in Users : Broadcast(u)
    \/ \E s \in Sockets : ClientClose(s)
    \/ ShutdownBegin
    \/ ShutdownNext

(***************************************************************************)
(* task_websocket_endpoint (main.py lines 223-278)                         *)
(***************************************************************************)
\* AgentClient.get_task_status (agent_client.py lines 402-410): the same dictionary for
\* every task; progress 0.5 is written as 50
get_task_status(id) ==
    "task_id" :> id @@ "status" :> "running" @@ "progress" :> "50"
        @@ "created_at" :> "2024-10-19T12:00:00Z"

\* the truth value of an Optional[dict]: None and {} are false
Truthy(task_status) == DOMAIN task_status # {}

\* task_status.get("status"), "none" where there is no task_status
StatusOf(task_status) ==
    IF Truthy(task_status) /\ "status" \in DOMAIN task_status
    THEN task_status["status"] ELSE "none"

\* the test of line 263
IsTerminal_inverted(status) == status \notin {"completed", "failed", "cancelled"}

\* the test of line 263
IsTerminal(status) == status \in {"completed", "failed", "cancelled"}

\* the messages one turn of the loop sends for the task_status it polled (lines 247-269)
PollMessages(task_status) ==
    IF ~Truthy(task_status) THEN <<"error">>
    ELSE IF IsTerminal(StatusOf(task_status)) THEN <<"progress", "completed">>
    ELSE <<"progress">>

\* the turn ends in a break (lines 253 and 269)
Breaks(task_status) == ~Truthy(task_status) \/ IsTerminal(StatusOf(task_status))

\* what a call of websocket.send_json can do: return, or raise because the peer is gone
SendOutcomes == {"ok", "WebSocketDisconnect", "Exception"}

\* send_json is called for the messages ms in order, with the outcomes os; the first call
\* that raises ends the try block
RECURSIVE SendAll(_, _, _)
SendAll(log, ms, os) ==
    IF ms = <<>> THEN [sent |-> log, exc |-> "none"]
    ELSE IF Head(os) = "ok" THEN SendAll(Append(log, Head(ms)), Tail(ms), Tail(os))
    ELSE [sent |-> log, exc |-> Head(os)]

\* the except clauses (lines 272-278) for the result r of the try block; o is the outcome of
\* the send_json of line 275, whose exception leaves the handler
Handle(r, o) ==
    IF r.exc = "Exception"
    THEN IF o = "ok"
         THEN [sent |-> Append(r.sent, "error"), ended |-> "Exception"]
         ELSE [sent |-> r.sent, ended |-> "raised"]
    ELSE [sent |-> r.sent, ended |-> r.exc]

\* the handler goes on to next if the try block r raised nothing, and ends otherwise
TaskStep(k, r, o, next, end) ==
    /\ sent' = [sent EXCEPT ![k] = Handle(r, o).sent]
    /\ IF r.exc = "none"
       THEN /\ tpc' = [tpc EXCEPT ![k] = next]
            /\ ended' = [ended EXCEPT ![k] = end]
       ELSE /\ tpc' = [tpc EXCEPT ![k] = "done"]
            /\ ended' = [ended EXCEPT ![k] = Handle(r, o).ended]

\* line 226: accept() returned
TaskAccept(k, id) ==
    /\ tpc[k] = "new"
    /\ tpc' = [tpc EXCEPT ![k] = "accepted"]
    /\ task_id' = [task_id EXCEPT ![k] = id]
    /\ UNCHANGED <<polled, sent, ended, extractVars, wsVars, httpVars>>

\* line 226: accept() raised, outside the try block
TaskAcceptFails(k) ==
    /\ tpc[k] = "new"
    /\ tpc' = [tpc EXCEPT ![k] = "done"]
    /\ ended' = [ended EXCEPT ![k] = "raised"]
    /\ UNCHANGED <<task_id, polled, sent, extractVars, wsVars, httpVars>>

\* lines 229-238: the initial status message
TaskInitial(k) ==
    /\ tpc[k] = "accepted"
    /\ \E o1, o2 \in SendOutcomes :
          LET task_status == get_task_status(task_id[k])
              ms == IF Truthy(task_status) THEN <<"status">> ELSE <<>>
          IN  TaskStep(k, SendAll(sent[k], ms, <<o1>>), o2, "sleeping", "")
    /\ UNCHANGED <<task_id, polled, extractVars, wsVars, httpVars>>

\* lines 241-270: asyncio.sleep(2) is over, the status is polled and reported
TaskPoll(k) ==
    /\ tpc[k] = "sleeping"
    /\ Len(polled[k]) < MaxPolls
    /\ \E o1, o2, o3 \in SendOutcomes :
          LET task_status == get_task_status(task_id[k])
              r == SendAll(sent[k], PollMessages(task_status), <<o1, o2>>)
          IN  /\ polled' = [polled EXCEPT ![k] = Append(@, StatusOf(task_status))]
              /\ IF Breaks(task_status)
                 THEN TaskStep(k, r, o3, "done", "returned")
                 ELSE TaskStep(k, r, o3, "sleeping", "")
    /\ UNCHANGED <<task_id, extractVars, wsVars, httpVars>>

InitTask ==
    /\ tpc = [k \in TaskSockets |-> "new"]
    /\ task_id = [k \in TaskSockets |-> ""]
    /\ polled = [k \in TaskSockets |-> <<>>]
    /\ sent = [k \in TaskSockets |-> <<>>]
    /\ ended = [k \in TaskSockets |-> ""]

NextTask ==
    \/ \E k \in TaskSockets, id \in TaskIds : TaskAccept(k, id)
    \/ \E k \in TaskSockets : TaskAcceptFails(k)
    \/ \E k \in TaskSockets : TaskInitial(k)
    \/ \E k \in TaskSockets : TaskPoll(k)

\* the extraction cascade, everything else at rest
(***************************************************************************)
(* Tasks API (api/tasks.py)                                                *)
(***************************************************************************)
\* no request served yet
NoResponse == [op |-> "none", code |-> 0]

NoRequest == [op |-> "none"]

\* what a request of the API leaves alone
Rest == UNCHANGED <<extractVars, wsVars, taskVars, coreVars, refmanVars>>

\* GET /{task_id} (lines 22-40)
GetTaskStatus(id) ==
    /\ requests < MaxRequests
    /\ requests' = requests + 1
    /\ request' = [op |-> "get_task_status", task_id |-> id]
    /\ LET task_status == get_task_status(id)
       IN  response' = IF ~Truthy(task_status)
                       THEN [op |-> "get_task_status", code |-> 404, task_id |-> id,
                             status |-> "none"]
                       ELSE [op |-> "get_task_status", code |-> 200, task_id |-> id,
                             status |-> StatusOf(task_status)]
    /\ UNCHANGED <<cancelled, dbVars>>
    /\ Rest

\* POST /{task_id}/cancel (lines 43-59): the answer is built without any call
CancelTask(id) ==
    /\ requests < MaxRequests
    /\ requests' = requests + 1
    /\ request' = [op |-> "cancel_task", task_id |-> id]
    /\ response' = [op |-> "cancel_task", code |-> 200, task_id |-> id,
                    status |-> "cancelled"]
    /\ cancelled' = cancelled \cup {id}
    /\ UNCHANGED dbVars
    /\ Rest

(***************************************************************************)
(* Papers API (api/papers.py) over the agent client                        *)
(* (services/agent_client.py) and the datastore                            *)
(* (services/supabase_client.py)                                           *)
(***************************************************************************)
\* an Optional value: None, or the value it holds
None == <<>>
Some(v) == <<v>>

\* settings.MAX_FILE_SIZE, in bytes
MAX_FILE_SIZE == 100 * 1024 * 1024

\* the identifiers upload_paper generates, in the order of their timestamps
PaperIds == {"paper_1", "paper_2"}

\* the first identifier no stored paper carries
NewPaperId == IF "paper_1" \notin DOMAIN research_papers THEN "paper_1" ELSE "paper_2"

\* the files a client uploads; has_size is FALSE when the client sent no length
\* (UploadFile.size is None)
Uploads ==
    { [content_type |-> "application/pdf", has_size |-> TRUE, size |-> MAX_FILE_SIZE,
       filename |-> "file.pdf"],
      [content_type |-> "application/pdf", has_size |-> TRUE, size |-> MAX_FILE_SIZE + 1,
       filename |-> "file.pdf"],
      [content_type |-> "text/plain", has_size |-> TRUE, size |-> 1,
       filename |-> "notes.txt"],
      [content_type |-> "application/pdf", has_size |-> FALSE, size |-> 0,
       filename |-> "file.pdf"] }

\* the form fields title, authors and year a client sends with a file; a field
\* left out is None
Forms ==
    { EmptyDict,
      ("title" :> "Deep Nets") @@ ("authors" :> "[\"Ann Lee\", \"Bob Ray\"]")
          @@ ("year" :> 2020),
      ("authors" :> "Ann Lee, Bob Ray") }

\* how the datastore answers create_paper: every call succeeds, the default
\* research query cannot be had, the insert of the paper fails, or only the
\* upsert of the initial reading status fails
CreateOutcomes == {"ok", "query_fails", "insert_fails", "status_fails"}

\* json.loads on the authors field: an array of strings parses to the list of
\* its items, text that is no JSON raises
unquote(item) == SubSeq(item, 2, Len(item) - 1)

IsJsonString(item) == Len(item) >= 2 /\ Char(item, 1) = "\"" /\ Char(item, Len(item)) = "\""

json_loads(s) ==
    LET t     == strip(s)
        items == IF Len(t) > 2 THEN split(SubSeq(t, 2, Len(t) - 1), ",") ELSE <<>>
    IN  IF /\ Len(t) >= 2 /\ Char(t, 1) = "[" /\ Char(t, Len(t)) = "]"
           /\ \A i \in 1..Len(items) : IsJsonString(strip(items[i]))
        THEN [raises |-> FALSE,
              value |-> [i \in 1..Len(items) |-> unquote(strip(items[i]))]]
        ELSE [raises |-> TRUE, value |-> <<>>]

\* upload_paper, lines 183-191: the author list of the form
author_list(form) ==
    IF "authors" \in DOMAIN form /\ form["authors"] # ""
    THEN LET parsed == json_loads(form["authors"])
             parts  == split(form["authors"], ",")
         IN  IF parsed.raises THEN [i \in 1..Len(parts) |-> strip(parts[i])]
             ELSE parsed.value
    ELSE <<>>

\* upload_paper, lines 193-200: the metadata handed to the agent client
build_metadata(form) ==
    (IF "title" \in DOMAIN form /\ form["title"] # "" THEN "title" :> form["title"]
     ELSE EmptyDict)
    @@ (IF author_list(form) # <<>> THEN "authors" :> author_list(form) ELSE EmptyDict)
    @@ (IF "year" \in DOMAIN form /\ form["year"] # 0 THEN "year" :> form["year"]
        ELSE EmptyDict)

\* upload_paper, lines 165-174: the status code the validation of the file raises,
\* 0 when the file passes; comparing a missing size raises a TypeError, which the
\* handler turns into a 500
validate_accepts_all(file) == 0

validate(file) ==
    IF file.content_type # "application/pdf" THEN 400
    ELSE IF ~file.has_size THEN 500
    ELSE IF file.size > MAX_FILE_SIZE THEN 400
    ELSE 0

\* the research query of a user's uploaded papers: the row of research_queries
\* that ties a paper to its owner
DefaultQuery(user_id) == "uploads-" \o user_id

\* SupabaseClient.create_paper, lines 366-391: the row it inserts
paper_data(paper_id, title, authors, user_id, md) ==
    [paper_id |-> paper_id, title |-> title,
     research_query_id |-> DefaultQuery(user_id), authors |-> authors]
    @@ (IF "year" \in DOMAIN md /\ md["year"] # 0
        THEN "publication_year" :> md["year"] ELSE EmptyDict)

\* SupabaseClient.create_reading_status, lines 476-504: the row it upserts
status_data(paper_id, user_id, status) ==
    [paper_id |-> paper_id, user_id |-> user_id, status |-> status, starred |-> FALSE]

\* AgentClient.upload_paper, lines 247-279, with SupabaseClient.create_paper,
\* lines 353-414: the result and the tables after it
agent_upload_paper(paper_id, user_id, file, md, outcome) ==
    LET title   == get(md, "title", file.filename)
        authors == get(md, "authors", <<>>)
        row     == paper_data(paper_id, title, authors, user_id, md)
        created == outcome \in {"ok", "status_fails"}
    IN  [success |-> created,
         pdf_path |-> IF created
                      THEN Some("/storage/users/" \o user_id \o "/papers/" \o paper_id \o ".pdf")
                      ELSE None,
         research_papers |-> IF created THEN (paper_id :> row) @@ research_papers
                             ELSE research_papers,
         paper_reading_status |->
             IF outcome = "ok"
             THEN (<<paper_id, user_id>> :> status_data(paper_id, user_id, "to_read"))
                  @@ paper_reading_status
             ELSE paper_reading_status]

\* AgentClient.trigger_ingestion, lines 281-295, over the stub ingest_single,
\* lines 171-178, which always answers
trigger_ingestion(paper_id) ==
    [success |-> TRUE, task_id |-> "ingest_" \o paper_id, paper_id |-> paper_id]

\* a request is served: the parts every handler of the papers API shares
Serve(req) ==
    /\ requests < MaxRequests
    /\ requests' = requests + 1
    /\ request' = req
    /\ UNCHANGED cancelled
    /\ Rest

\* POST /papers/upload (lines 144-240)
UploadPaper(file, user_id, form, auto_ingest, outcome) ==
    /\ Serve([op |-> "upload_paper", file |-> file, user_id |-> user_id, form |-> form,
               auto_ingest |-> auto_ingest])
    /\ DOMAIN research_papers # PaperIds
    /\ LET refused  == validate(file)
           paper_id == NewPaperId
           md       == build_metadata(form)
           upload_result == agent_upload_paper(paper_id, user_id, file, md, outcome)
           ingestion_result == trigger_ingestion(paper_id)
       IN  IF refused # 0
           THEN /\ response' = [op |-> "upload_paper", code |-> refused, calls |-> <<>>]
                /\ UNCHANGED dbVars
           ELSE /\ research_papers' = upload_result.research_papers
                /\ paper_reading_status' = upload_result.paper_reading_status
                /\ UNCHANGED <<tags, paper_tags, collection_papers>>
                /\ response' =
                       IF ~upload_result.success
                       THEN [op |-> "upload_paper", code |-> 500,
                             calls |-> <<"upload_paper">>]
                       ELSE [op |-> "upload_paper", code |-> 200, success |-> TRUE,
                             paper_id |-> paper_id, filename |-> file.filename,
                             file_size |-> file.size,
                             status |-> IF ~auto_ingest THEN "uploaded" ELSE "ingesting",
                             ingestion_task_id |-> IF auto_ingest
                                                   THEN Some(ingestion_result.task_id)
                                                   ELSE None,
                             extracted_metadata |-> None,
                             calls |-> IF auto_ingest
                                       THEN <<"upload_paper", "trigger_ingestion">>
                                       ELSE <<"upload_paper">>]

\* the tables as one value, for the calls a handler makes one after another
Tables ==
    [research_papers |-> research_papers, paper_reading_status |-> paper_reading_status,
     tags |-> tags, paper_tags |-> paper_tags, collection_papers |-> collection_papers]

\* the tables of db become the tables of the datastore
Commit(db) ==
    /\ research_papers' = db.research_papers
    /\ paper_reading_status' = db.paper_reading_status
    /\ tags' = db.tags
    /\ paper_tags' = db.paper_tags
    /\ collection_papers' = db.collection_papers

\* how the datastore answers a write: it stores the row, or the call fails
WriteOutcomes == {"ok", "fails"}

\* every status sets started_at
updates_always_started(status, starred, rating) ==
    (IF status # None
     THEN ("status" :> status[1]) @@ ("started_at" :> "now()")
     ELSE EmptyDict)
    @@ (IF starred # None THEN "starred" :> starred[1] ELSE EmptyDict)
    @@ (IF rating # None THEN "rating" :> rating[1] ELSE EmptyDict)

\* SupabaseClient.update_reading_status, lines 518-531: the columns it sets
updates(status, starred, rating) ==
    (IF status # None
     THEN ("status" :> status[1])
          @@ (IF status[1] = "reading" THEN "started_at" :> "now()"
              ELSE IF status[1] = "read" THEN "completed_at" :> "now()"
              ELSE EmptyDict)
     ELSE EmptyDict)
    @@ (IF starred # None THEN "starred" :> starred[1] ELSE EmptyDict)
    @@ (IF rating # None THEN "rating" :> rating[1] ELSE EmptyDict)

\* an upsert into paper_reading_status: the columns given replace those of the
\* row with the same key, the other columns of that row stay
upsert(table, key, row) ==
    (key :> (row @@ (IF key \in DOMAIN table THEN table[key] ELSE EmptyDict))) @@ table

\* AgentClient.update_paper_status, lines 342-372, with
\* SupabaseClient.update_reading_status, lines 506-548: the result and the table
\* after it; the row references its paper, so the upsert fails without the paper
update_paper_status(db, paper_id, user_id, status, starred, rating, outcome) ==
    LET stored == outcome = "ok" /\ paper_id \in DOMAIN db.research_papers
        row    == [paper_id |-> paper_id, user_id |-> user_id]
                  @@ updates(status, starred, rating)
    IN  [success |-> stored,
         db |-> IF stored
                THEN [db EXCEPT !.paper_reading_status =
                                    upsert(@, <<paper_id, user_id>>, row)]
                ELSE db]

\* update_status, line 334
valid_statuses == {"to_read", "reading", "read", "skimmed", "abandoned"}

\* update_status, line 339
valid_rating_unchecked(rating) == TRUE

valid_rating(rating) == ~(rating # None /\ (rating[1] < 1 \/ rating[1] > 5))

\* the status, starred and rating parameters clients send to update_status
StatusRequests ==
    { [status |-> "reading", starred |-> None, rating |-> None],
      [status |-> "done", starred |-> None, rating |-> None],
      [status |-> "read", starred |-> Some(TRUE), rating |-> Some(5)],
      [status |-> "reading", starred |-> None, rating |-> Some(0)],
      [status |-> "skimmed", starred |-> None, rating |-> Some(6)] }

\* PUT /papers/{paper_id}/status (lines 322-359)
UpdateStatus(paper_id, user_id, params, outcome) ==
    /\ Serve([op |-> "update_status", paper_id |-> paper_id, user_id |-> user_id,
              status |-> params.status, starred |-> params.starred,
              rating |-> params.rating])
    /\ LET result == update_paper_status(Tables, paper_id, user_id, Some(params.status),
                                         params.starred, params.rating, outcome)
       IN  IF params.status \notin valid_statuses \/ ~valid_rating(params.rating)
           THEN /\ response' = [op |-> "update_status", code |-> 400, calls |-> <<>>]
                /\ UNCHANGED dbVars
           ELSE /\ Commit(result.db)
                /\ response' =
                       IF ~result.success
                       THEN [op |-> "update_status", code |-> 500,
                             calls |-> <<"update_paper_status">>]
                       ELSE [op |-> "update_status", code |-> 200, success |-> TRUE,
                             status |-> params.status, starred |-> params.starred,
                             rating |-> params.rating,
                             calls |-> <<"update_paper_status">>]

\* table collections: the collections of the users, which the papers API reads
\* and does not write
collections == (1 :> [id |-> 1, user_id |-> "u1"]) @@ (2 :> [id |-> 2, user_id |-> "u2"])

\* AgentClient.add_to_collection, lines 374-386, with
\* SupabaseClient.add_to_collection, lines 569-603; the link references its paper
add_to_collection(db, paper_id, user_id, collection_id, outcome) ==
    LET coll_check == {c \in DOMAIN collections :
                          /\ collection_id = Some(c)
                          /\ collections[c].user_id = user_id}
        stored == /\ outcome = "ok"
                  /\ coll_check # {}
                  /\ paper_id \in DOMAIN db.research_papers
    IN  [success |-> stored,
         db |-> IF stored
                THEN [db EXCEPT !.collection_papers = @ \cup {<<collection_id[1], paper_id>>}]
                ELSE db]

\* AgentClient.add_paper_tags, lines 388-400, with SupabaseClient.add_paper_tags,
\* lines 607-646: every tag is upserted for the user and linked to the paper; the
\* link references its paper, so without the paper the first link raises after
\* the first tag was upserted; iterating over tags = None raises at once
add_paper_tags(db, paper_id, user_id, tag_names, outcome) ==
    IF outcome # "ok" \/ tag_names = None THEN [success |-> FALSE, db |-> db]
    ELSE IF tag_names[1] = <<>> THEN [success |-> TRUE, db |-> db]
    ELSE IF paper_id \notin DOMAIN db.research_papers
    THEN [success |-> FALSE,
          db |-> [db EXCEPT !.tags = @ \cup {<<user_id, tag_names[1][1]>>}]]
    ELSE [success |-> TRUE,
          db |-> [db EXCEPT
                    !.tags = @ \cup {<<user_id, t>> : t \in Range(tag_names[1])},
                    !.paper_tags = @ \cup {<<paper_id, <<user_id, t>>>> :
                                              t \in Range(tag_names[1])}]]

\* the function f without the keys in S
Without(f, S) == [k \in DOMAIN f \ S |-> f[k]]

\* how the datastore answers the four calls of delete_paper: all succeed, or the
\* first, second, third or fourth fails
DeleteOutcomes == {"ok", "fails", "fails_tags", "fails_collections", "fails_paper"}

\* the number of the call that fails, 0 when none does
FailsAt(outcome) ==
    CASE outcome = "ok"                -> 0
      [] outcome = "fails"             -> 1
      [] outcome = "fails_tags"        -> 2
      [] outcome = "fails_collections" -> 3
      [] outcome = "fails_paper"       -> 4

\* the paper row is deleted first
StepTable_paper_first(n) ==
    <<"research_papers", "paper_reading_status", "paper_tags", "collection_papers">>[n]

\* SupabaseClient.delete_paper, lines 444-466: the table of the n-th delete
StepTable(n) ==
    <<"paper_reading_status", "paper_tags", "collection_papers", "research_papers">>[n]

\* table(...).delete().eq('paper_id', paper_id).execute(): the rows are selected by
\* paper_id alone
delete_eq(db, table, paper_id) ==
    CASE table = "paper_reading_status" ->
            [db EXCEPT !.paper_reading_status =
                Without(@, {k \in DOMAIN @ : k[1] = paper_id})]
      [] table = "paper_tags" ->
            [db EXCEPT !.paper_tags = {l \in @ : l[1] # paper_id}]
      [] table = "collection_papers" ->
            [db EXCEPT !.collection_papers = {l \in @ : l[2] # paper_id}]
      [] table = "research_papers" ->
            [db EXCEPT !.research_papers = Without(@, {paper_id})]

\* the tables after the first n deletes of delete_paper
RECURSIVE deleted(_, _, _)
deleted(db, paper_id, n) ==
    IF n = 0 THEN db ELSE delete_eq(deleted(db, paper_id, n - 1), StepTable(n), paper_id)

\* AgentClient.delete_paper, lines 305-314, with SupabaseClient.delete_paper,
\* lines 438-472: the deletes made before the failing one stay
delete_paper(db, paper_id, user_id, outcome) ==
    IF FailsAt(outcome) = 0
    THEN [success |-> TRUE, db |-> deleted(db, paper_id, 4)]
    ELSE [success |-> FALSE, db |-> deleted(db, paper_id, FailsAt(outcome) - 1)]

\* the tables that lost rows between db and db2, recorded with the response
Emptied(db, db2) == {t \in DOMAIN db : db2[t] # db[t]}

\* DELETE /papers/{paper_id} (lines 243-262)
DeletePaper(paper_id, user_id, outcome) ==
    /\ Serve([op |-> "delete_paper", paper_id |-> paper_id, user_id |-> user_id])
    /\ LET result == delete_paper(Tables, paper_id, user_id, outcome)
       IN  /\ Commit(result.db)
           /\ response' = IF ~result.success
                          THEN [op |-> "delete_paper", code |-> 500,
                                calls |-> <<"delete_paper">>,
                                emptied |-> Emptied(Tables, result.db)]
                          ELSE [op |-> "delete_paper", code |-> 200, success |-> TRUE,
                                calls |-> <<"delete_paper">>,
                                emptied |-> Emptied(Tables, result.db)]

\* batch_action, line 377
valid_actions == {"update_status", "add_to_collection", "add_tags", "delete"}

\* the action and the action-specific parameters clients send to batch_action
BatchRequests ==
    { [action |-> "update_status", status |-> s, starred |-> None,
       collection_id |-> None, tags |-> None] : s \in {Some("reading"), Some("done")} }
    \cup
    { [action |-> "add_to_collection", status |-> None, starred |-> None,
       collection_id |-> c, tags |-> None] : c \in {Some(1), Some(2)} }
    \cup
    { [action |-> "add_tags", status |-> None, starred |-> None,
       collection_id |-> None, tags |-> t] : t \in {Some(<<"ml">>), None} }
    \cup
    { [action |-> a, status |-> None, starred |-> None,
       collection_id |-> None, tags |-> None] : a \in {"delete", "archive"} }

\* the lists of paper ids of a batch request
PaperIdLists ==
    { <<>>, <<"paper_1">>, <<"paper_1", "paper_2">>, <<"paper_2", "paper_1">>,
      <<"paper_2", "paper_2">> }

\* how the datastore answers the calls of one batch request: at most one of the
\* calls fails, the failed_at-th
OutcomesOf(paper_ids, failed_at) ==
    [i \in 1..Len(paper_ids) |-> IF i = failed_at THEN "fails" ELSE "ok"]

\* batch_action, lines 383-409: the call made for one paper
perform(db, params, paper_id, user_id, outcome) ==
    IF params.action = "update_status"
    THEN update_paper_status(db, paper_id, user_id, params.status, params.starred, None,
                             outcome)
    ELSE IF params.action = "add_to_collection"
    THEN add_to_collection(db, paper_id, user_id, params.collection_id, outcome)
    ELSE IF params.action = "add_tags"
    THEN add_paper_tags(db, paper_id, user_id, params.tags, outcome)
    ELSE delete_paper(db, paper_id, user_id, outcome)

\* the agent client method batch_action calls for an action
MethodOf(action) ==
    IF action = "update_status" THEN "update_paper_status"
    ELSE IF action = "add_to_collection" THEN "add_to_collection"
    ELSE IF action = "add_tags" THEN "add_paper_tags"
    ELSE "delete_paper"

\* batch_action, lines 382-423: the loop over paper_ids from the i-th id on; a
\* failed call is recorded and the loop goes on
RECURSIVE loop(_, _, _, _, _, _)
loop_stops_at_failure(db, params, paper_ids, user_id, outcomes, i) ==
    IF i > Len(paper_ids) THEN [db |-> db, results |-> <<>>, calls |-> <<>>]
    ELSE LET result == perform(db, params, paper_ids[i], user_id, outcomes[i])
             rest   == IF result.success
                       THEN loop(result.db, params, paper_ids, user_id, outcomes, i + 1)
                       ELSE [db |-> result.db, results |-> <<>>, calls |-> <<>>]
         IN  [db |-> rest.db,
              results |-> <<[paper_id |-> paper_ids[i], success |-> result.success]>>
                          \o rest.results,
              calls |-> <<[call |-> MethodOf(params.action), paper_id |-> paper_ids[i]]>>
                        \o rest.calls]

loop(db, params, paper_ids, user_id, outcomes, i) ==
    IF i > Len(paper_ids) THEN [db |-> db, results |-> <<>>, calls |-> <<>>]
    ELSE LET result == perform(db, params, paper_ids[i], user_id, outcomes[i])
             rest   == loop(result.db, params, paper_ids, user_id, outcomes, i + 1)
         IN  [db |-> rest.db,
              results |-> <<[paper_id |-> paper_ids[i], success |-> result.success]>>
                          \o rest.results,
              calls |-> <<[call |-> MethodOf(params.action), paper_id |-> paper_ids[i]]>>
                        \o rest.calls]

\* POST /papers/batch-action (lines 362-437)
BatchAction(params, paper_ids, user_id, outcomes) ==
    /\ Serve([op |-> "batch_action", action |-> params.action, paper_ids |-> paper_ids,
              user_id |-> user_id, status |-> params.status, starred |-> params.starred,
              collection_id |-> params.collection_id, tags |-> params.tags])
    /\ IF params.action \notin valid_actions
       THEN /\ response' = [op |-> "batch_action", code |-> 400, calls |-> <<>>]
            /\ UNCHANGED dbVars
       ELSE LET done == loop(Tables, params, paper_ids, user_id, outcomes, 1)
                successful == Cardinality({i \in 1..Len(done.results) :
                                              done.results[i].success})
            IN  /\ Commit(done.db)
                /\ response' = [op |-> "batch_action", code |-> 200,
                                action |-> params.action, total |-> Len(paper_ids),
                                successful |-> successful,
                                failed |-> Len(paper_ids) - successful,
                                results |-> done.results, calls |-> done.calls]

\* the title_contains filter clients send to list_papers
TitleFilters == {None, Some("deep")}

\* SupabaseClient.search_papers, lines 75-176: the rows of research_papers whose
\* title matches the filter, whoever uploaded them (the rows are a set here: the
\* order by title is left out), and the count of all rows
search_papers(user_id, filters) ==
    LET matches(row) ==
            \/ ~("title_contains" \in DOMAIN filters)
            \/ find(lower(row.title), lower(filters["title_contains"]), 1) # 0
    IN  [success |-> TRUE,
         papers |-> {[paper_id |-> p, title |-> research_papers[p].title] :
                        p \in {q \in DOMAIN research_papers : matches(research_papers[q])}},
         total |-> Cardinality(DOMAIN research_papers)]

\* GET /papers (lines 38-116), with the default skip = 0 and limit = 20
ListPapers(user_id, title_contains, outcome) ==
    /\ Serve([op |-> "list_papers", user_id |-> user_id,
              title_contains |-> title_contains])
    /\ LET filters == IF title_contains # None /\ title_contains[1] # ""
                      THEN "title_contains" :> title_contains[1] ELSE EmptyDict
           result  == search_papers(user_id, filters)
       IN  response' = IF outcome # "ok"
                       THEN [op |-> "list_papers", code |-> 500,
                             calls |-> <<"search_papers">>]
                       ELSE [op |-> "list_papers", code |-> 200,
                             papers |-> result.papers, total |-> result.total,
                             page |-> 0,
                             pages |-> IF result.total > 0
                                       THEN (result.total + 20 - 1) \div 20 ELSE 0,
                             calls |-> <<"search_papers">>]
    /\ UNCHANGED dbVars

InitApi ==
    /\ requests = 0
    /\ request = NoRequest
    /\ response = NoResponse
    /\ cancelled = {}
    /\ research_papers = EmptyDict
    /\ paper_reading_status = EmptyDict
    /\ tags = {}
    /\ paper_tags = {}
    /\ collection_papers = {}

NextApi ==
    \/ \E id \in TaskIds : GetTaskStatus(id)
    \/ \E id \in TaskIds : CancelTask(id)
    \/ \E file \in Uploads, user_id \in Users, form \in Forms, auto_ingest \in BOOLEAN,
          outcome \in CreateOutcomes :
            UploadPaper(file, user_id, form, auto_ingest, outcome)
    \/ \E paper_id \in PaperIds, user_id \in Users, params \in StatusRequests,
          outcome \in WriteOutcomes :
            UpdateStatus(paper_id, user_id, params, outcome)
    \/ \E paper_id \in PaperIds, user_id \in Users, outcome \in DeleteOutcomes :
            DeletePaper(paper_id, user_id, outcome)
    \/ \E user_id \in Users, title_contains \in TitleFilters, outcome \in WriteOutcomes :
            ListPapers(user_id, title_contains, outcome)
    \/ \E params \in BatchRequests, paper_ids \in PaperIdLists, user_id \in Users :
          \E failed_at \in 0..Len(paper_ids) :
            BatchAction(params, paper_ids, user_id, OutcomesOf(paper_ids, failed_at))

\* the reading status rows a datastore in use holds for paper_1 and u1: as created by
\* the upload, after an update to reading, and after a later update to read; "earlier"
\* is a time the datastore put for the now() of an earlier update
StoredStatusRows ==
    { status_data("paper_1", "u1", "to_read"),
      [paper_id |-> "paper_1", user_id |-> "u1", status |-> "reading", starred |-> TRUE,
       rating |-> 4, started_at |-> "earlier"],
      [paper_id |-> "paper_1", user_id |-> "u1", status |-> "read", starred |-> FALSE,
       rating |-> 2, started_at |-> "earlier", completed_at |-> "earlier"] }

\* the parameters of the update_status requests made on it
StatusUpdates ==
    { [status |-> "reading", starred |-> None, rating |-> None],
      [status |-> "read", starred |-> None, rating |-> None],
      [status |-> "skimmed", starred |-> None, rating |-> None],
      [status |-> "abandoned", starred |-> Some(TRUE), rating |-> None],
      [status |-> "to_read", starred |-> None, rating |-> Some(3)],
      [status |-> "reading", starred |-> Some(FALSE), rating |-> Some(5)],
      [status |-> "read", starred |-> Some(TRUE), rating |-> Some(5)],
      [status |-> "done", starred |-> None, rating |-> None] }

\* and of the batch requests: batch_action passes status and starred as they come
StatusBatches ==
    { [action |-> "update_status", status |-> st, starred |-> sr,
       collection_id |-> None, tags |-> None] :
          st \in {None, Some("done")}, sr \in {None, Some(TRUE)} }

NextStatus ==
    \/ \E paper_id \in PaperIds, params \in StatusUpdates, outcome \in WriteOutcomes :
            UpdateStatus(paper_id, "u1", params, outcome)
    \/ \E params \in StatusBatches, outcome \in WriteOutcomes :
            BatchAction(params, <<"paper_1">>, "u1", <<outcome>>)

(***************************************************************************)
(* Core domain router (domains/core/router.py) with its middleware         *)
(* (domains/core/middleware.py) and the authentication service             *)
(* (domains/core/auth.py)                                                  *)
(***************************************************************************)
\* the accounts: the administrator the deployment starts with, and the users
Accounts == {"admin"} \cup Users

\* what a request of the core router leaves alone
RestCore == UNCHANGED <<cancelled, dbVars, refmanVars, extractVars, wsVars, taskVars>>

\* a request of the core router is served
ServeCore(req) ==
    /\ requests < MaxRequests
    /\ requests' = requests + 1
    /\ request' = req
    /\ RestCore

\* signup, lines 54-63, and exchange_oauth_code, lines 439-447: the profile a new
\* user gets
profile_data(user_id, auth_provider) ==
    [id |-> user_id, auth_provider |-> auth_provider, tier |-> "free",
     monthly_budget_usd |-> 10, is_admin |-> FALSE]

\* an update of user_profiles: the columns given replace those of the row
update_row(row, update_data) == update_data @@ row

\* POST /register (lines 35-46) with AuthService.signup, lines 20-106: Supabase
\* Auth refuses an address it knows; the insert of the profile may fail after the
\* account was made
Register(user_id, outcome) ==
    /\ ServeCore([op |-> "register", user_id |-> user_id])
    /\ IF user_id \in auth_users
       THEN /\ response' = [op |-> "register", code |-> 400, calls |-> <<>>]
            /\ UNCHANGED coreVars
       ELSE /\ auth_users' = auth_users \cup {user_id}
            /\ IF outcome = "ok" /\ user_id \notin DOMAIN user_profiles
               THEN /\ user_profiles' =
                           (user_id :> profile_data(user_id, "email")) @@ user_profiles
                    /\ response' = [op |-> "register", code |-> 200, calls |-> <<"insert">>]
               ELSE /\ UNCHANGED user_profiles
                    /\ response' = [op |-> "register", code |-> 500, calls |-> <<"insert">>]

\* POST /login (lines 49-60) with AuthService.login, lines 109-177
Login(user_id) ==
    /\ ServeCore([op |-> "login", user_id |-> user_id])
    /\ UNCHANGED auth_users
    /\ IF user_id \notin auth_users
       THEN /\ response' = [op |-> "login", code |-> 401, calls |-> <<>>]
            /\ UNCHANGED user_profiles
       ELSE IF user_id \notin DOMAIN user_profiles
       THEN /\ response' = [op |-> "login", code |-> 500, calls |-> <<"select">>]
            /\ UNCHANGED user_profiles
       ELSE /\ user_profiles' =
                   [user_profiles EXCEPT
                       ![user_id] = update_row(@, "last_login_at" :> "now")]
            /\ response' = [op |-> "login", code |-> 200, calls |-> <<"select", "update">>]

\* GET /auth/callback (lines 95-121) with AuthService.exchange_oauth_code, lines
\* 366-492: the profile of a known user is touched, a new user gets a profile
AuthCallback(user_id, outcome) ==
    /\ ServeCore([op |-> "auth_callback", user_id |-> user_id])
    /\ auth_users' = auth_users \cup {user_id}
    /\ IF user_id \in DOMAIN user_profiles
       THEN /\ user_profiles' =
                   [user_profiles EXCEPT
                       ![user_id] = update_row(@, ("last_login_at" :> "now")
                                                   @@ ("auth_provider" :> "google"))]
            /\ response' = [op |-> "auth_callback", code |-> 200,
                            calls |-> <<"select", "update">>]
       ELSE IF outcome = "ok"
       THEN /\ user_profiles' =
                   (user_id :> profile_data(user_id, "google")) @@ user_profiles
            /\ response' = [op |-> "auth_callback", code |-> 200,
                            calls |-> <<"select", "insert">>]
       ELSE /\ UNCHANGED user_profiles
            /\ response' = [op |-> "auth_callback", code |-> 500,
                            calls |-> <<"select", "insert">>]

\* the bearer of a request: None for a token Supabase Auth does not accept
Bearers == {None} \cup {Some(a) : a \in Accounts}

\* get_current_user_id, lines 16-37, with AuthService.verify_token, lines 180-223:
\* the status code raised, 0 when the token is that of an account
get_current_user_id(bearer) ==
    IF bearer = None \/ bearer[1] \notin auth_users THEN 401 ELSE 0

\* require_admin, lines 63-82, over get_current_user, lines 40-60, and
\* AuthService.get_user_profile, lines 226-267: the status code raised, 0 for an
\* administrator
require_admin(bearer) ==
    IF get_current_user_id(bearer) # 0 THEN get_current_user_id(bearer)
    ELSE IF bearer[1] \notin DOMAIN user_profiles THEN 404
    ELSE IF ~get(user_profiles[bearer[1]], "is_admin", FALSE) THEN 403
    ELSE 0

\* the fields of ProfileUpdateRequest (schemas.py, lines 89-97)
ProfileFields ==
    {"full_name", "timezone", "default_citation_style", "ai_features_enabled",
     "auto_ingest_uploads", "rag_search_enabled", "kg_search_enabled"}

\* the request model keeps the fields it declares and drops the others;
\* model_dump(exclude_none=True) then leaves out those not given
ProfileUpdateRequest_allows_extra(body) == body

ProfileUpdateRequest(body) == [k \in DOMAIN body \cap ProfileFields |-> body[k]]

\* the bodies clients send to PATCH /profile
ProfileBodies ==
    { EmptyDict,
      ("full_name" :> "Eve"),
      ("full_name" :> "Eve") @@ ("is_admin" :> TRUE) @@ ("tier" :> "enterprise"),
      ("monthly_budget_usd" :> 1000) }

\* PATCH /profile (lines 140-169); the update matches no row when the profile is
\* missing or the datastore refuses it
UpdateProfile(bearer, body, outcome) ==
    /\ ServeCore([op |-> "update_profile", bearer |-> bearer, body |-> body])
    /\ UNCHANGED auth_users
    /\ LET refused     == get_current_user_id(bearer)
           update_data == ProfileUpdateRequest(body)
       IN  IF refused # 0
           THEN /\ response' = [op |-> "update_profile", code |-> refused, calls |-> <<>>]
                /\ UNCHANGED user_profiles
           ELSE IF update_data = EmptyDict
           THEN /\ response' = [op |-> "update_profile", code |-> 400, calls |-> <<>>]
                /\ UNCHANGED user_profiles
           ELSE IF outcome # "ok" \/ bearer[1] \notin DOMAIN user_profiles
           THEN /\ response' = [op |-> "update_profile", code |-> 404,
                                calls |-> <<"update">>]
                /\ UNCHANGED user_profiles
           ELSE /\ user_profiles' =
                       [user_profiles EXCEPT ![bearer[1]] = update_row(@, update_data)]
                /\ response' = [op |-> "update_profile", code |-> 200,
                                calls |-> <<"update">>]

\* update_user_admin, line 221
valid_tiers == {"free", "basic", "pro", "enterprise"}

\* the bodies clients send to PATCH /admin/users/{user_id}
AdminBodies ==
    { ("tier" :> "pro"), ("tier" :> "gold"), ("is_admin" :> TRUE),
      ("monthly_budget_usd" :> 50) }

\* PATCH /admin/users/{user_id} (lines 209-241)
UpdateUserAdmin(bearer, user_id, updates_, outcome) ==
    /\ ServeCore([op |-> "update_user_admin", bearer |-> bearer, user_id |-> user_id,
                  updates |-> updates_])
    /\ UNCHANGED auth_users
    /\ LET refused == require_admin(bearer)
       IN  IF refused # 0
           THEN /\ response' = [op |-> "update_user_admin", code |-> refused,
                                calls |-> <<>>]
                /\ UNCHANGED user_profiles
           ELSE IF "tier" \in DOMAIN updates_ /\ updates_["tier"] \notin valid_tiers
           THEN /\ response' = [op |-> "update_user_admin", code |-> 400, calls |-> <<>>]
                /\ UNCHANGED user_profiles
           ELSE IF outcome # "ok" \/ user_id \notin DOMAIN user_profiles
           THEN /\ response' = [op |-> "update_user_admin", code |-> 404,
                                calls |-> <<"update">>]
                /\ UNCHANGED user_profiles
           ELSE /\ user_profiles' =
                       [user_profiles EXCEPT ![user_id] = update_row(@, updates_)]
                /\ response' = [op |-> "update_user_admin", code |-> 200,
                                calls |-> <<"update">>]

\* GET /admin/users (lines 173-187)
ListUsers(bearer) ==
    /\ ServeCore([op |-> "list_users", bearer |-> bearer])
    /\ UNCHANGED coreVars
    /\ LET refused == require_admin(bearer)
       IN  response' = IF refused # 0
                       THEN [op |-> "list_users", code |-> refused, calls |-> <<>>]
                       ELSE [op |-> "list_users", code |-> 200,
                             users |-> DOMAIN user_profiles,
                             total |-> Cardinality(DOMAIN user_profiles),
                             calls |-> <<"select">>]

\* the deployment starts with the account and the profile of its administrator
InitCore ==
    /\ auth_users = {"admin"}
    /\ user_profiles =
           ("admin" :> [id |-> "admin", auth_provider |-> "email", tier |-> "enterprise",
                        monthly_budget_usd |-> 10, is_admin |-> TRUE])

NextCore ==
    \/ \E user_id \in Users, outcome \in WriteOutcomes : Register(user_id, outcome)
    \/ \E user_id \in Accounts : Login(user_id)
    \/ \E user_id \in Users, outcome \in WriteOutcomes : AuthCallback(user_id, outcome)
    \/ \E bearer \in Bearers, body \in ProfileBodies, outcome \in WriteOutcomes :
            UpdateProfile(bearer, body, outcome)
    \/ \E bearer \in Bearers, user_id \in Accounts, updates_ \in AdminBodies,
          outcome \in WriteOutcomes :
            UpdateUserAdmin(bearer, user_id, updates_, outcome)
    \/ \E bearer \in Bearers : ListUsers(bearer)

(***************************************************************************)
(* RefMan domain router (domains/refman/router.py)                         *)
(***************************************************************************)
\* the requests a run makes to the RefMan router
MaxRefmanRequests == 3

\* the ids the datastore gives to new papers and new collections
RefmanPaperIds == {"rp1", "rp2"}
RefmanCollectionIds == {"col1", "col2"}

\* the bearer of a request to the RefMan router: None for a token decode_token
\* rejects, else the subject of the token
RefmanBearers == {None} \cup {Some(u) : u \in Users}

\* what a request of the RefMan router leaves alone
RestRefman == UNCHANGED <<cancelled, dbVars, coreVars, extractVars, wsVars, taskVars>>

\* a request of the RefMan router is served
ServeRefman(req) ==
    /\ requests < MaxRefmanRequests
    /\ requests' = requests + 1
    /\ request' = req
    /\ RestRefman

\* the rows of a table selected with .eq('user_id', user_id)
owned_by_anyone(table, user_id) == DOMAIN table

owned(table, user_id) == {id \in DOMAIN table : table[id].user_id = user_id}

\* the answer to a bearer get_current_user_id (lines 19-30) rejects
Unauthorized(op) == [op |-> op, code |-> 401, calls |-> <<>>]

\* GET /papers (lines 33-59), with the default skip = 0 and limit = 20 and without
\* search; the rows are a set here, their order by created_at is left out
GetPapers(bearer, collection_id) ==
    /\ ServeRefman([op |-> "get_papers", bearer |-> bearer,
                    collection_id |-> collection_id])
    /\ UNCHANGED refmanVars
    /\ response' =
           IF bearer = None THEN Unauthorized("get_papers")
           ELSE LET mine == owned(refman_papers, bearer[1])
                    linked == {l.paper_id : l \in {k \in paper_collections :
                                                      collection_id = Some(k.collection_id)}}
                IN  [op |-> "get_papers", code |-> 200,
                     papers |-> {refman_papers[id] :
                                    id \in IF collection_id # None
                                           THEN mine \cap linked ELSE mine},
                     calls |-> <<"select">>]

\* the first id of ids no row of the table carries
NewId(table, first, second) == IF first \notin DOMAIN table THEN first ELSE second

\* POST /papers (lines 62-82)
CreatePaper(bearer, title, outcome) ==
    /\ ServeRefman([op |-> "create_paper", bearer |-> bearer, title |-> title])
    /\ DOMAIN refman_papers # RefmanPaperIds
    /\ UNCHANGED <<refman_collections, paper_collections>>
    /\ IF bearer = None
       THEN /\ response' = Unauthorized("create_paper")
            /\ UNCHANGED refman_papers
       ELSE IF outcome # "ok"
       THEN /\ response' = [op |-> "create_paper", code |-> 500, calls |-> <<"insert">>]
            /\ UNCHANGED refman_papers
       ELSE LET id  == NewId(refman_papers, "rp1", "rp2")
                row == [id |-> id, user_id |-> bearer[1], title |-> title]
            IN  /\ refman_papers' = (id :> row) @@ refman_papers
                /\ response' = [op |-> "create_paper", code |-> 200, paper |-> row,
                                calls |-> <<"insert">>]

\* GET /papers/{paper_id} (lines 85-101)
GetPaper(bearer, paper_id) ==
    /\ ServeRefman([op |-> "get_paper", bearer |-> bearer, paper_id |-> paper_id])
    /\ UNCHANGED refmanVars
    /\ response' =
           IF bearer = None THEN Unauthorized("get_paper")
           ELSE IF paper_id \notin owned(refman_papers, bearer[1])
           THEN [op |-> "get_paper", code |-> 404, calls |-> <<"select">>]
           ELSE [op |-> "get_paper", code |-> 200, paper |-> refman_papers[paper_id],
                 calls |-> <<"select">>]

\* GET /collections (lines 137-146)
GetCollections(bearer) ==
    /\ ServeRefman([op |-> "get_collections", bearer |-> bearer])
    /\ UNCHANGED refmanVars
    /\ response' =
           IF bearer = None THEN Unauthorized("get_collections")
           ELSE [op |-> "get_collections", code |-> 200,
                 collections |-> {refman_collections[id] :
                                     id \in owned(refman_collections, bearer[1])},
                 calls |-> <<"select">>]

\* POST /collections (lines 149-169)
CreateCollection(bearer, outcome) ==
    /\ ServeRefman([op |-> "create_collection", bearer |-> bearer])
    /\ DOMAIN refman_collections # RefmanCollectionIds
    /\ UNCHANGED <<refman_papers, paper_collections>>
    /\ IF bearer = None
       THEN /\ response' = Unauthorized("create_collection")
            /\ UNCHANGED refman_collections
       ELSE IF outcome # "ok"
       THEN /\ response' = [op |-> "create_collection", code |-> 500,
                            calls |-> <<"insert">>]
            /\ UNCHANGED refman_collections
       ELSE LET id  == NewId(refman_collections, "col1", "col2")
                row == [id |-> id, user_id |-> bearer[1], name |-> "Reading list"]
            IN  /\ refman_collections' = (id :> row) @@ refman_collections
                /\ response' = [op |-> "create_collection", code |-> 200,
                                collection |-> row, calls |-> <<"insert">>]

\* POST /collections/{collection_id}/papers/{paper_id} (lines 172-197); the insert
\* of a link that exists, or that the datastore refuses, raises
AddPaperToCollection(bearer, collection_id, paper_id, outcome) ==
    /\ ServeRefman([op |-> "add_paper_to_collection", bearer |-> bearer,
                    collection_id |-> collection_id, paper_id |-> paper_id])
    /\ UNCHANGED <<refman_papers, refman_collections>>
    /\ LET link == [paper_id |-> paper_id, collection_id |-> collection_id]
       IN  IF bearer = None
           THEN /\ response' = Unauthorized("add_paper_to_collection")
                /\ UNCHANGED paper_collections
           ELSE IF \/ paper_id \notin owned(refman_papers, bearer[1])
                   \/ collection_id \notin owned(refman_collections, bearer[1])
           THEN /\ response' = [op |-> "add_paper_to_collection", code |-> 404,
                                calls |-> <<"select", "select">>]
                /\ UNCHANGED paper_collections
           ELSE IF outcome # "ok" \/ link \in paper_collections
           THEN /\ response' = [op |-> "add_paper_to_collection", code |-> 500,
                                calls |-> <<"select", "select", "insert">>]
                /\ UNCHANGED paper_collections
           ELSE /\ paper_collections' = paper_collections \cup {link}
                /\ response' = [op |-> "add_paper_to_collection", code |-> 200,
                                calls |-> <<"select", "select", "insert">>]

NextRefman ==
    \/ \E bearer \in RefmanBearers,
          collection_id \in {None} \cup {Some(c) : c \in RefmanCollectionIds} :
            GetPapers(bearer, collection_id)
    \/ \E bearer \in RefmanBearers, outcome \in WriteOutcomes :
            CreatePaper(bearer, "Deep Nets", outcome)
    \/ \E bearer \in RefmanBearers, paper_id \in RefmanPaperIds : GetPaper(bearer, paper_id)
    \/ \E bearer \in RefmanBearers : GetCollections(bearer)
    \/ \E bearer \in RefmanBearers, outcome \in WriteOutcomes :
            CreateCollection(bearer, outcome)
    \/ \E bearer \in RefmanBearers, collection_id \in RefmanCollectionIds,
          paper_id \in RefmanPaperIds, outcome \in WriteOutcomes :
            AddPaperToCollection(bearer, collection_id, paper_id, outcome)

\* no paper and no collection yet
InitRefman ==
    /\ refman_papers = EmptyDict
    /\ refman_collections = EmptyDict
    /\ paper_collections = {}

Init == InitExtract /\ InitWS /\ InitTask /\ InitApi /\ InitCore /\ InitRefman

Next == NextExtract

Spec == Init /\ [][Next]_vars

\* the WebSocket layer, everything else at rest
InitIdle ==
    /\ file_data = [corrupt |-> TRUE, info |-> EmptyDict, pages |-> <<>>, extract_fails |-> FALSE]
    /\ filename = "file.pdf"
    /\ reply = [kind |-> "timeout", status |-> 0, work |-> EmptyDict]
    /\ fault = "none"
    /\ pc = "idle"
    /\ metadata = initial_metadata
    /\ first_page_text = ""
    /\ doi = ""
    /\ executed = <<>>
    /\ crossref_calls = 0

\* the extraction applied to the first pages of DoiTexts, the server at rest
InitDoi ==
    /\ file_data \in [corrupt : {FALSE}, info : {EmptyDict}, pages : {<<t>> : t \in DoiTexts},
                       extract_fails : {FALSE}]
    /\ filename = "file.pdf"
    /\ reply \in Replies
    /\ fault \in Faults
    /\ pc = "phase1"
    /\ metadata = initial_metadata
    /\ first_page_text = ""
    /\ doi = ""
    /\ executed = <<>>
    /\ crossref_calls = 0
    /\ InitWS /\ InitTask /\ InitApi /\ InitCore /\ InitRefman

SpecDoi == InitDoi /\ [][NextExtract]_vars

\* the server has started: no socket, no extraction
InitServer == InitIdle /\ InitWS /\ InitTask /\ InitApi /\ InitCore /\ InitRefman

SpecWS == InitServer /\ [][NextWS]_vars

\* the task progress endpoint, everything else at rest
SpecTask == InitServer /\ [][NextTask]_vars

\* the HTTP API, everything else at rest
SpecApi == InitServer /\ [][NextApi]_vars

\* a datastore in use: paper_1 of u1 is stored, with or without a reading status row
InitStatus ==
    /\ requests = 0
    /\ request = NoRequest
    /\ response = NoResponse
    /\ cancelled = {}
    /\ research_papers =
           ("paper_1" :> paper_data("paper_1", "file.pdf", <<>>, "u1", EmptyDict))
    /\ paper_reading_status \in
           {EmptyDict} \cup {<<"paper_1", "u1">> :> row : row \in StoredStatusRows}
    /\ tags = {}
    /\ paper_tags = {}
    /\ collection_papers = {}
    /\ InitIdle /\ InitWS /\ InitTask /\ InitCore /\ InitRefman

SpecStatus == InitStatus /\ [][NextStatus]_vars

\* the core domain router, everything else at rest
SpecCore == InitServer /\ [][NextCore]_vars

\* the RefMan domain router, everything else at rest
SpecRefman == InitServer /\ [][NextRefman]_vars

(***************************************************************************)
(* Properties of the extraction cascade                                    *)
(***************************************************************************)
Returned == pc = "done"

method == metadata["extraction_method"]

Methods == {"crossref", "text_parsing", "pdf_properties", "filename", "error"}

ConfidenceOf(m) ==
    CASE m = "crossref"       -> 95
      [] m = "pdf_properties" -> 70
      [] m = "text_parsing"   -> 60
      [] m = "filename"       -> 30
      [] m = "error"          -> 10

\* the request to Crossref for the DOI that was found gives metadata
LookupSucceeds == reply.kind = "response" /\ reply.status = 200

\* the metadata after Phase 1 alone, and after Phase 1 and text parsing
MergedProperties == update(initial_metadata, _extract_basic_pdf_properties(file_data))

MergedText ==
    IF first_page_text # ""
    THEN update(MergedProperties, _extract_metadata_from_text(first_page_text))
    ELSE MergedProperties

\* the stages in the order of the code; every stage but "done" has a step guarded by pc alone
StageRank(p) ==
    CASE p = "phase1" -> 1 [] p = "phase2" -> 2 [] p = "phase3" -> 3 [] p = "phase4" -> 4
      [] p = "final" -> 5 [] p = "except" -> 6 [] p = "done" -> 7

\* C1: every extraction moves forward through the stages to the return of a record and no
\* stage raises out of it; the returned method is one of crossref, text_parsing,
\* pdf_properties, filename, error, never the initial "none", and the confidence is the one
\* that belongs to the method.
C1_RecordAlwaysReturned ==
    /\ [][StageRank(pc') > StageRank(pc)]_vars
    /\ [](/\ pc \in {"phase1", "phase2", "phase3", "phase4", "final", "except", "done"}
          /\ Returned =>
                /\ DOMAIN initial_metadata \subseteq DOMAIN metadata
                /\ method \in Methods
                /\ metadata["extraction_confidence"] = ConfidenceOf(method))

C1_Witness == Returned /\ method = "pdf_properties" /\ file_data.pages = <<>>

\* C2: when a valid DOI was found and Crossref gave metadata for it, the extraction returns
\* straight after the lookup with method crossref, confidence 95 and the DOI that was
\* found; text parsing and the filename fallback did not run.
C2_CrossrefReturnsAtOnce ==
    (Returned /\ doi # "" /\ LookupSucceeds) =>
          /\ executed = <<"pdf_properties", "first_page_text", "find_doi", "crossref">>
          /\ method = "crossref"
          /\ metadata["extraction_confidence"] = 95
          /\ metadata["doi"] = doi
          /\ doi = _find_doi_in_text(first_page_text)
          /\ _is_valid_doi(doi)

C2_Witness ==
    /\ Returned /\ doi = "10.1234/abc" /\ LookupSucceeds
    /\ first_page_text = "a note on graphs from 2021\ndoi: 10.1234/abc."

\* C3: Crossref is asked at most once and only for a valid DOI that was found; a lookup that
\* fails (status other than 200, timeout, exception) is not repeated, does not give the
\* error outcome, and the remaining fallback stages run.
C3_SingleLookupNoRetry ==
    /\ crossref_calls <= 1
    /\ Len(SelectSeq(executed, LAMBDA st : st = "crossref")) = crossref_calls
    /\ crossref_calls = 1 => doi # "" /\ _is_valid_doi(doi)
    /\ (crossref_calls = 1 /\ ~LookupSucceeds) =>
          /\ pc \in {"phase4", "final", "except", "done"}
          /\ pc = "except" => fault = "text_parsing" /\ "text_parsing" \in Range(executed)
          /\ Returned =>
                /\ "text_parsing" \in Range(executed)
                /\ fault = "none" => method \in {"text_parsing", "filename"}
                /\ method = "error" => fault = "text_parsing"

C3_Witness ==
    /\ Returned /\ crossref_calls = 1 /\ reply.kind = "timeout"
    /\ method = "text_parsing"

C5_FinalMethodTable ==
    (Returned /\ method \notin {"crossref", "error"}) =>
          LET nothing == MergedText["title"] = "" /\ MergedText["authors"] = <<>>
          IN  /\ method = "filename" <=> nothing
              /\ method = "filename" =>
                    /\ metadata["title"] = _clean_filename_for_title(filename)
                    /\ metadata["extraction_confidence"] = 30
              /\ ~nothing =>
                    /\ method = IF first_page_text # "" THEN "text_parsing"
                                ELSE "pdf_properties"
                    /\ metadata["title"] = MergedText["title"]
                    /\ metadata["authors"] = MergedText["authors"]
              /\ method = "pdf_properties" => _extract_first_page_text(file_data) = ""

\* only the authors of the PDF properties are present: no title, no first-page text
C5_Witness ==
    /\ Returned /\ method = "pdf_properties"
    /\ metadata["title"] = "" /\ metadata["authors"] # <<>>

\* C6: when an exception escapes a stage the record has method error, confidence 10, the
\* cleaned filename as title and an error field, and every other field has the value merged
\* before the failure; a failure inside the property read or the first-page text extraction
\* is absorbed there and does not give the error outcome.
C6_ErrorOutcome ==
    Returned =>
          /\ method = "error" <=> "error" \in Range(executed)
          /\ method = "error" =>
                /\ metadata["extraction_confidence"] = 10
                /\ metadata["title"] = _clean_filename_for_title(filename)
                /\ "error" \in DOMAIN metadata
                /\ DOMAIN metadata = DOMAIN MergedProperties \cup {"error"}
                /\ \A k \in DOMAIN MergedProperties \
                             {"title", "extraction_method", "extraction_confidence"} :
                       metadata[k] = MergedProperties[k]
          /\ (fault = "none" /\ (file_data.corrupt \/ file_data.extract_fails)) =>
                method \in {"pdf_properties", "filename"}

C6_Witness ==
    /\ Returned /\ method = "error" /\ fault = "text_parsing"
    /\ metadata["authors"] = <<"Jane Doe", "John Smith">> /\ metadata["year"] = 2019

\* a stage of the cascade leaves a title and an author list that were not empty not empty
KeepsFound ==
    /\ metadata["title"] # "" => metadata'["title"] # ""
    /\ metadata["authors"] # <<>> => metadata'["authors"] # <<>>

\* C20: across the stages of the cascade a non-empty title and a non-empty author list
\* are never replaced by an empty one: the Crossref stage and the text parsing stage
\* overwrite what an earlier stage found only with a non-empty value.
C20_NoEmptyOverwrite == [][(pc \in {"phase3", "phase4"}) => KeepsFound]_vars

\* C21: the doi field of the returned record is non-empty only when the method is crossref;
\* a DOI that was found in the first-page text but whose lookup failed is not reported by
\* the text_parsing, pdf_properties, filename and error outcomes.
C21_DoiOnlyFromCrossref ==
    Returned =>
        /\ metadata["doi"] # "" => method = "crossref"
        /\ (doi # "" /\ ~LookupSucceeds) => metadata["doi"] = ""

\* a DOI was found, the lookup failed and text parsing gave the result
C21_Witness ==
    /\ Returned /\ doi = "10.1234/abc" /\ ~LookupSucceeds
    /\ method = "text_parsing"
    /\ metadata["doi"] = ""

\* the four-digit numbers of the text that the pattern matches as a whole, as integers
RECURSIVE four_digit_years(_, _)
four_digit_years(text, p) ==
    IF p > Len(text) THEN <<>>
    ELSE IF YearAt(text, p)
         THEN <<int(SubSeq(text, p, p + 3))>> \o four_digit_years(text, p + 4)
         ELSE four_digit_years(text, p + 1)

InRange(y) == 1990 <= y /\ y <= CurrentYear

\* C22: text parsing sets year to the largest four-digit year between 1990 and the current
\* year that appears in the first-page text, and leaves it unset only when the text has
\* no such year.
C22_MostRecentYear ==
    (Returned /\ method = "text_parsing") =>
        LET text_metadata == _extract_metadata_from_text(first_page_text)
            found         == SelectSeq(four_digit_years(first_page_text, 1), InRange)
        IN  IF found # <<>>
            THEN "year" \in DOMAIN text_metadata /\ text_metadata["year"] = max(found)
            ELSE "year" \notin DOMAIN text_metadata

\* 10.<four or more digits>/<one or more non-space characters>
DoiShape(s) ==
    /\ Len(s) >= 3 /\ SubSeq(s, 1, 3) = "10."
    /\ \E d \in 7..Len(s) - 2 :
          /\ \A i \in 4..d : isdigit(Char(s, i))
          /\ Char(s, d + 1) = "/"
          /\ \A i \in d + 2..Len(s) : ~isspace(Char(s, i))

\* the valid cleaned candidates of entry k of doi_patterns, in text order
ValidCandidates(k, text) == SelectSeq(Candidates(doi_patterns[k], text), _is_valid_doi)

\* C23: _find_doi_in_text returns nothing, or a string without trailing . , ; : ) ] that
\* has the form 10.<four or more digits>/<non-space characters> and more than 10
\* characters; the patterns are tried in list order, so the result is the first valid
\* candidate, in text order, of the first pattern that has one (an invalid candidate is
\* skipped), and the empty text gives nothing.
C23_FindDoi ==
    ("find_doi" \in Range(executed) /\ fault # "find_doi") =>
        LET text == first_page_text
            hits == {k \in DOMAIN doi_patterns : ValidCandidates(k, text) # <<>>}
        IN  /\ doi # "" =>
                  /\ Char(doi, Len(doi)) \notin Chars(".,;:)]")
                  /\ DoiShape(doi)
                  /\ Len(doi) > 10
            /\ text = "" => doi = ""
            /\ hits = {} => doi = ""
            /\ hits # {} =>
                  LET k == CHOOSE h \in hits : \A j \in hits : h <= j
                  IN  doi = ValidCandidates(k, text)[1]

\* a raw DOI comes first and a prefixed one later: the prefixed one is returned, cleaned
C23_Witness ==
    /\ "find_doi" \in Range(executed)
    /\ first_page_text = "see 10.5678/raw12,\ndoi: 10.1234/abc."
    /\ doi = "10.1234/abc"

\* an invalid raw candidate is skipped and the later valid one is returned
C23_SkipWitness ==
    /\ "find_doi" \in Range(executed)
    /\ first_page_text = "10.1234/ab\nsee 10.5678/raw12,"
    /\ doi = "10.5678/raw12"

(***************************************************************************)
(* Properties of the WebSocket layer                                       *)
(***************************************************************************)
\* the sockets in the set of some user
Registered(ac) == UNION {ac[u] : u \in DOMAIN ac}

\* C7: the step in which send_personal_message(message, u) returns removes from the set of
\* u exactly the connections whose send failed, so that the ones whose send succeeded stay
\* registered, and changes no other set and no key; the steps of a send before that change
\* nothing in the registry; a call for a user without an entry returns at once, having
\* awaited no send_json and changed nothing.
C7_SendAndPrune ==
    [][/\ returned' # NoSend =>
            LET u      == returned'.user
                failed == returned'.disconnected
            IN  IF u \in DOMAIN active_connections
                THEN /\ DOMAIN active_connections' = DOMAIN active_connections
                     /\ active_connections'[u] = active_connections[u] \ failed
                     /\ \A v \in DOMAIN active_connections \ {u} :
                           active_connections'[v] = active_connections[v]
                ELSE /\ active_connections' = active_connections
                     /\ returned'.cur = 0
       /\ \A p \in Senders :
            (it[p] # NoSend /\ it'[p] # NoSend /\ it'[p].cur # it[p].cur) =>
                active_connections' = active_connections
       /\ \A u \in Users \ DOMAIN active_connections :
            Broadcast(u) =>
                /\ active_connections' = active_connections
                /\ returned' = [NoSend EXCEPT !.user = u]
                /\ it' = it /\ open' = open /\ hpc' = hpc
      ]_vars

\* a send to two connections of u1 returned: the one to socket 1 failed, the one to socket 2
\* succeeded
C7_Witness ==
    /\ returned.user = "u1" /\ returned.used = 2
    /\ returned.cur = 2 /\ returned.disconnected = {1}
    /\ open[2]
    /\ "u1" \in DOMAIN active_connections
    /\ active_connections["u1"] = {2}

\* C8: every key of active_connections maps to a non-empty set.
C8_NoEmptySet ==
    \A u \in DOMAIN active_connections : active_connections[u] # {}

\* C9: a socket is registered only while its handler runs; the step in which a handler
\* ends leaves the socket in no set, and where the socket or its user was not registered
\* the disconnect of that step changes nothing.
C9_UnregisteredAtExit ==
    /\ [](\A s \in Sockets :
            s \in Registered(active_connections) => hpc[s] \in {"sending", "receiving"})
    /\ [][\A s \in Sockets :
            (hpc[s] \in {"sending", "receiving"} /\ hpc'[s] = "done") =>
                /\ s \notin Registered(active_connections')
                /\ s \notin Registered(active_connections) =>
                      active_connections' = active_connections
         ]_vars

\* the events websocket_endpoint answers a received message with
ReplyEvents == {ReplyEvent(t) : t \in MessageTypes}

\* C24: the message a handler sends first, in the step that registers its socket, is
\* 'connected'; the message it sends for a received message is one of 'pong', 'subscribed'
\* and 'error'; and the send of a handler ends by returning, having gone through every
\* connection registered under the user id, the sender's own and the others.
C24_RepliesToAll ==
    [][\A s \in Sockets :
          /\ (hpc[s] = "new" /\ hpc'[s] = "sending") =>
                begun' = "connected" /\ s \in active_connections'[huser'[s]]
          /\ (hpc[s] = "receiving" /\ hpc'[s] = "sending") => begun' \in ReplyEvents
          /\ (it[s] # NoSend /\ it'[s] = NoSend) =>
                /\ returned' # NoSend
                /\ returned'.user \in DOMAIN active_connections' =>
                      \A c \in active_connections'[returned'.user] : c <= returned'.cur
      ]_vars

\* C25: a send that was suspended at an await while other handlers changed the registry
\* ends by returning, not by raising, and the handler that issued it goes on to receive.
C25_SafeInterleaving ==
    [][\A p \in Senders :
          (it[p] # NoSend /\ it'[p] = NoSend) =>
              /\ raised' = "none"
              /\ returned' # NoSend
              /\ p \in Sockets => hpc'[p] = "receiving"
      ]_vars

(***************************************************************************)
(* Properties of the task progress endpoint                                *)
(***************************************************************************)
Count(log, t) == Cardinality({i \in 1..Len(log) : log[i] = t})

TerminalStatuses == {"completed", "failed", "cancelled"}

C11_CancelTakesEffect ==
    (response.op = "get_task_status" /\ response.task_id \in cancelled) =>
        response.status = "cancelled"

\* C12: a successful upload made without title, authors and year returns the metadata
\* extracted from the PDF as extracted_metadata, and the stored record carries the
\* extracted title rather than the raw file name.
C12_UploadExtractsMetadata ==
    (response.op = "upload_paper" /\ response.code = 200 /\ request.form = EmptyDict) =>
        /\ response.extracted_metadata # None
        /\ research_papers[response.paper_id].title # response.filename

\* the last step served an upload
Uploaded == requests' # requests /\ request'.op = "upload_paper"

\* the paper record of the upload was created in the last step
Created == research_papers' # research_papers

\* the ingestion of the uploaded paper was triggered in the last step
Ingested == "trigger_ingestion" \in Range(response'.calls)

\* the uploaded file is no PDF or exceeds MAX_FILE_SIZE
Refused(file) ==
    \/ file.content_type # "application/pdf"
    \/ file.has_size /\ file.size > MAX_FILE_SIZE

StatusUpdated == requests' # requests /\ request'.op = "update_status"

\* C14: update_status answers 400 and writes nothing to the datastore when the status is
\* none of to_read, reading, read, skimmed, abandoned or the rating lies outside 1..5;
\* only a request that passes both checks reaches the upsert of the reading status.
C14_StatusValidation ==
    [][StatusUpdated =>
        LET valid == /\ request'.status \in {"to_read", "reading", "read", "skimmed",
                                              "abandoned"}
                     /\ (request'.rating = None \/ request'.rating[1] \in 1..5)
        IN  /\ ~valid => response'.code = 400 /\ UNCHANGED dbVars
            /\ ~valid => response'.calls = <<>>
            /\ "update_paper_status" \in Range(response'.calls) => valid
            /\ paper_reading_status' # paper_reading_status => valid]_vars

\* a status update with a rating of 6 was refused
C14_Witness ==
    /\ request.op = "update_status"
    /\ request.status \in valid_statuses
    /\ request.rating = Some(6)
    /\ response.code = 400

\* C15: the status stored in every row of paper_reading_status is one of to_read,
\* reading, read, skimmed, abandoned, whichever of upload_paper, update_status and
\* batch_action wrote the row.
C15_StoredStatusValid ==
    \A key \in DOMAIN paper_reading_status :
        "status" \in DOMAIN paper_reading_status[key] =>
            paper_reading_status[key]["status"] \in
                {"to_read", "reading", "read", "skimmed", "abandoned"}

\* the last step served a batch request
Batched == requests' # requests /\ request'.op = "batch_action"

\* C16: batch_action answers 400 and performs nothing when the action is none of
\* update_status, add_to_collection, add_tags, delete; otherwise it attempts the
\* operation for every paper id in the order of the list, a failure for one id does not
\* keep it from the ids after it, the response holds one result per id, total is the
\* number of ids, and successful + failed = total.
C16_BatchResults ==
    [][Batched =>
        LET ids == request'.paper_ids
        IN  IF request'.action \notin {"update_status", "add_to_collection", "add_tags",
                                       "delete"}
            THEN response'.code = 400 /\ response'.calls = <<>> /\ UNCHANGED dbVars
            ELSE /\ response'.code = 200
                 /\ Len(response'.calls) = Len(ids)
                 /\ \A i \in 1..Len(ids) : response'.calls[i].paper_id = ids[i]
                 /\ Len(response'.results) = Len(ids)
                 /\ \A i \in 1..Len(ids) : response'.results[i].paper_id = ids[i]
                 /\ response'.total = Len(ids)
                 /\ response'.successful =
                        Cardinality({i \in 1..Len(ids) : response'.results[i].success})
                 /\ response'.successful + response'.failed = response'.total]_vars

\* a batch of two ids whose first operation failed and whose second succeeded
C16_Witness ==
    /\ request.op = "batch_action"
    /\ Len(request.paper_ids) = 2
    /\ response.code = 200
    /\ ~response.results[1].success
    /\ response.results[2].success
    /\ response.failed = 1

\* the papers of the user: those filed under the user's research query at upload
PapersOf(user_id) ==
    {p \in DOMAIN research_papers :
        research_papers[p].research_query_id = DefaultQuery(user_id)}

\* C19: a listing of the papers API asked with one user's id never returns a paper of
\* another user, and delete_paper asked with one user's id never removes another user's
\* paper, nor its reading status, tag links or collection links.
C19_UserIsolation ==
    [][/\ (requests' # requests /\ request'.op = "list_papers" /\ response'.code = 200) =>
             \A row \in response'.papers : row.paper_id \in PapersOf(request'.user_id)
       /\ (requests' # requests /\ request'.op = "delete_paper") =>
             \A p \in DOMAIN research_papers \ PapersOf(request'.user_id) :
                 /\ p \in DOMAIN research_papers'
                 /\ \A key \in DOMAIN paper_reading_status :
                        key[1] = p => key \in DOMAIN paper_reading_status'
                 /\ \A link \in paper_tags : link[1] = p => link \in paper_tags'
                 /\ \A link \in collection_papers :
                        link[2] = p => link \in collection_papers']_vars

(***************************************************************************)
(* Properties of the core domain router                                    *)
(***************************************************************************)
\* the protected fields of a profile
ProtectedOf(row) ==
    [k \in {"tier", "monthly_budget_usd", "is_admin"} |-> row[k]]

\* the bearer is an account with a profile
HasProfile(bearer) ==
    bearer # None /\ bearer[1] \in auth_users /\ bearer[1] \in DOMAIN user_profiles

\* the bearer is an account whose profile has is_admin true
IsAdmin(bearer) == HasProfile(bearer) /\ user_profiles[bearer[1]].is_admin

\* the last step served a request to an admin endpoint
AdminCalled == requests' # requests /\ request'.op \in {"update_user_admin", "list_users"}

RefmanServed(op) ==
    requests' # requests /\ request'.op = op /\ request'.bearer # None

\* the paper and the collection of the last request both belong to its caller
BothOwned ==
    /\ request'.paper_id \in DOMAIN refman_papers
    /\ refman_papers[request'.paper_id].user_id = request'.bearer[1]
    /\ request'.collection_id \in DOMAIN refman_collections
    /\ refman_collections[request'.collection_id].user_id = request'.bearer[1]

\* C18: the RefMan router confines every operation to the rows of the authenticated user:
\* get_papers, get_paper and get_collections return only rows whose user_id is the subject
\* of the token, get_paper answers 404 for the paper of another user, and
\* add_paper_to_collection creates a link only when the paper and the collection both
\* belong to the caller, and else answers 404 and creates no link.
C18_OwnRowsOnly ==
    [][/\ (RefmanServed("get_papers") /\ response'.code = 200) =>
             \A row \in response'.papers : row.user_id = request'.bearer[1]
       /\ (RefmanServed("get_collections") /\ response'.code = 200) =>
             \A row \in response'.collections : row.user_id = request'.bearer[1]
       /\ RefmanServed("get_paper") =>
             /\ response'.code = 200 => response'.paper.user_id = request'.bearer[1]
             /\ (/\ request'.paper_id \in DOMAIN refman_papers
                 /\ refman_papers[request'.paper_id].user_id # request'.bearer[1]) =>
                    response'.code = 404
       /\ RefmanServed("add_paper_to_collection") =>
             /\ paper_collections' # paper_collections =>
                    /\ BothOwned
                    /\ paper_collections' = paper_collections \cup
                           {[paper_id |-> request'.paper_id,
                             collection_id |-> request'.collection_id]}
             /\ ~BothOwned => response'.code = 404 /\ UNCHANGED paper_collections
       /\ (requests' # requests /\ request'.op # "add_paper_to_collection") =>
             UNCHANGED paper_collections]_vars

\* a user asked to put an own paper into the collection of another user and was
\* answered 404
C18_Witness ==
    /\ request.op = "add_paper_to_collection"
    /\ request.bearer # None
    /\ request.paper_id \in DOMAIN refman_papers
    /\ refman_papers[request.paper_id].user_id = request.bearer[1]
    /\ request.collection_id \in DOMAIN refman_collections
    /\ refman_collections[request.collection_id].user_id # request.bearer[1]
    /\ response.code = 404

\* the rows of the three child tables that refer to the paper
ChildRows(status, links, colls, paper_id) ==
    [paper_reading_status |-> {k \in DOMAIN status : k[1] = paper_id},
     paper_tags           |-> {l \in links : l[1] = paper_id},
     collection_papers    |-> {l \in colls : l[2] = paper_id}]

\* every row of a child table refers to a paper that is stored
NoOrphanRow ==
    /\ \A k \in DOMAIN paper_reading_status : k[1] \in DOMAIN research_papers
    /\ \A l \in paper_tags : l[1] \in DOMAIN research_papers
    /\ \A l \in collection_papers : l[2] \in DOMAIN research_papers

\* what a served delete_paper request did to the tables
DeleteEffect ==
    LET p      == request'.paper_id
        before == ChildRows(paper_reading_status, paper_tags, collection_papers, p)
        after  == ChildRows(paper_reading_status', paper_tags', collection_papers', p)
    IN  \* rows of other papers are left alone
        /\ \A q \in PaperIds \ {p} :
              /\ q \in DOMAIN research_papers <=> q \in DOMAIN research_papers'
              /\ ChildRows(paper_reading_status', paper_tags', collection_papers', q)
                    = ChildRows(paper_reading_status, paper_tags, collection_papers, q)
        /\ tags' = tags
        \* success: all four deletes ran, no row of the four tables refers to the paper
        /\ response'.code = 200 =>
              /\ p \notin DOMAIN research_papers'
              /\ after.paper_reading_status = {} /\ after.paper_tags = {}
              /\ after.collection_papers = {}
        \* failure: the paper row stays, and the deletes made before the failing one, in
        \* the order reading status, tag links, collection links, are not undone
        /\ response'.code # 200 =>
              /\ p \in DOMAIN research_papers => p \in DOMAIN research_papers'
              /\ \A t \in DOMAIN after : after[t] \in {{}, before[t]}
              /\ after.paper_reading_status # {} =>
                    after.paper_tags = before.paper_tags
              /\ after.paper_tags # {} =>
                    after.collection_papers = before.collection_papers

StatusWritten ==
    /\ requests' # requests
    /\ \/ request'.op = "update_status" /\ response'.code = 200
       \/ /\ request'.op = "batch_action" /\ request'.action = "update_status"
          /\ Len(request'.paper_ids) = 1 /\ response'.results[1].success

Supplied ==
    IF request'.op = "update_status"
    THEN [key |-> <<request'.paper_id, request'.user_id>>, status |-> Some(request'.status),
          starred |-> request'.starred, rating |-> request'.rating]
    ELSE [key |-> <<request'.paper_ids[1], request'.user_id>>, status |-> request'.status,
          starred |-> request'.starred, rating |-> None]

\* the column has the value it had, or is absent as it was
Kept(old, new, col) ==
    /\ col \in DOMAIN new <=> col \in DOMAIN old
    /\ col \in DOMAIN old => new[col] = old[col]

WritesOnlySupplied ==
    LET key == Supplied.key
        old == IF key \in DOMAIN paper_reading_status
               THEN paper_reading_status[key] ELSE EmptyDict
        new == paper_reading_status'[key]
        st  == Supplied.status
    IN  /\ DOMAIN paper_reading_status' = DOMAIN paper_reading_status \cup {key}
        /\ \A k \in DOMAIN paper_reading_status \ {key} :
              paper_reading_status'[k] = paper_reading_status[k]
        /\ new.paper_id = key[1] /\ new.user_id = key[2]
        /\ IF st # None THEN new.status = st[1] ELSE Kept(old, new, "status")
        /\ IF st = Some("reading")
           THEN new.started_at = "now()"
           ELSE Kept(old, new, "started_at")
        /\ IF st = Some("read")
           THEN new.completed_at = "now()"
           ELSE Kept(old, new, "completed_at")
        /\ IF Supplied.starred # None
           THEN new.starred = Supplied.starred[1]
           ELSE Kept(old, new, "starred")
        /\ IF Supplied.rating # None
           THEN new.rating = Supplied.rating[1]
           ELSE Kept(old, new, "rating")

\* C27: update_reading_status writes the columns that were supplied and no other: status
\* 'reading' also sets started_at, status 'read' also sets completed_at, any other status
\* leaves both timestamps as stored, and starred and rating keep their stored values when
\* they are not supplied.
C27_WritesOnlySupplied == [][StatusWritten => WritesOnlySupplied]_vars

\* a row that was started earlier, starred and rated is marked skimmed: the timestamp,
\* the star and the rating are as they were
C27_Witness ==
    /\ request.op = "update_status" /\ response.code = 200
    /\ request.status = "skimmed" /\ request.starred = None /\ request.rating = None
    /\ paper_reading_status[<<"paper_1", "u1">>] =
           [paper_id |-> "paper_1", user_id |-> "u1", status |-> "skimmed",
            starred |-> TRUE, rating |-> 4, started_at |-> "earlier"]
====
